---------------------------- MODULE Spec2Model ----------------------------
(***************************************************************************)
(* Learn To Solder 2018 badge firmware (src/src/LearnToSolder2018.X/main.c) *)
(* as a state machine: the TMR0 interrupt handler (Charlieplex driver and   *)
(* 1 ms timer bank), the cooperative main loop (flash patterns, game,       *)
(* button debounce, sleep policy) and the two push-buttons as environment.  *)
(***************************************************************************)
EXTENDS Integers, Sequences, FiniteSets, TLC

VARIABLES
  TRISA, PORTA,             \* LED bus direction register and output latch
  RA2, RA3,                 \* raw button pins (0 = pressed): left, right
  LEDOns, LEDState,
  PatternDelay, PatternState,
  WakeTimer, ShutdownDelayTimer,
  LeftDebounceTimer, RightDebounceTimer,
  LeftButtonState, RightButtonState,
  LastRightButtonPressTime,
  right_delay, left_delay,                                   \* statics of Run*Flash
  num_leds_lit, last_button_press_time, next_decrement_time, \* statics of RunGame
  LastLeftButtonState, LastRightButtonState, LeftButtonQuickPressCount, \* statics of CheckForButtonPushes
  pc,                       \* position of the main loop
  isr,                      \* position inside TMR0_Callback ("idle" = not in the handler)
  delayLeft,                \* timer periods left of the running __delay_ms
  blink,                    \* number of win-celebration writes done
  ButtonSeen,               \* value CheckForButtonPushes returned in the grace spin
  rd, rdHeld,               \* bytes of WakeTimer read so far; values it held meanwhile
  lag,                      \* timer periods since the main loop's last step
  edges,                    \* number of raw button changes so far
  glitch,                   \* history: per button, phase of a single-sample glitch
  armTime,                  \* history: WakeTimer when ShutdownDelayTimer was armed
  stamp                     \* history: wake session LastRightButtonPressTime is from

progVars == <<TRISA, PORTA, LEDOns, LEDState, PatternDelay, PatternState,
              WakeTimer, ShutdownDelayTimer, LeftDebounceTimer, RightDebounceTimer,
              LeftButtonState, RightButtonState, LastRightButtonPressTime,
              right_delay, left_delay, num_leds_lit, last_button_press_time,
              next_decrement_time, LastLeftButtonState, LastRightButtonState,
              LeftButtonQuickPressCount>>
vars == <<progVars, RA2, RA3, pc, isr, delayLeft, blink, ButtonSeen, rd, rdHeld,
          lag, edges, glitch, armTime, stamp>>

---------------------------------------------------------------------------
(* Program constants *)
SLOW_DELAY == 250
NUMBER_OF_PATTERNS == 8
BUTTON_DEBOUNCE_MS == 20
SHUTDOWN_DELAY_MS == 100
QUICK_PRESS_MS == 250
TRISA_LEDS_ALL_OUTUPT == 204
PORTA_LEDS_ALL_LOW == 0
LED_R_RED == 1
LED_R_GREEN == 2
LED_R_BLUE == 4
LED_R_YELLOW == 8
LED_L_YELLOW == 16
LED_L_BLUE == 32
LED_L_GREEN == 64
LED_L_RED == 128
PATTERN_OFF_STATE == 0
PATTERN_RIGHT_FLASH == 0
PATTERN_LEFT_FLASH == 1
PATTERN_RIGHT_GAME == 2
MAX_AWAKE_TIME_MS == 300000
GAME_PRESS_MS == 150
GAME_DECREMENT_MS == 160
LED_SETTLE_MS == 5
WIN_BLINK_MS == 100
TICKS_PER_MS == 8

BUTTON_STATE_IDLE == "IDLE"
BUTTON_STATE_PRESSED_TIMING == "PRESSED_TIMING"
BUTTON_STATE_PRESSED == "PRESSED"
BUTTON_STATE_RELEASED_TIMING == "RELEASED_TIMING"
BUTTON_STATE_RELEASED == "RELEASED"
ButtonState_t == {BUTTON_STATE_IDLE, BUTTON_STATE_PRESSED_TIMING, BUTTON_STATE_PRESSED,
                  BUTTON_STATE_RELEASED_TIMING, BUTTON_STATE_RELEASED}

(* Bounds of the model *)
WakeCap == 300112        \* ms of wake time the model follows (WakeTimer stops there)
BytesStart == 254        \* SpecBytes: ms at which the byte-wise reads begin
BytesHorizon == 257      \* ms of wake time explored by SpecBytes
PassSlack == 5           \* ms allowed to a pass of the main loop around the shutdown branch
MaxEdges == 2            \* raw button changes per behaviour
MaxLag == 1              \* timer periods one step of the main loop may take
DebounceHorizon == 27    \* ms of wake time explored by Spec
BusHorizon == 2          \* ms of wake time explored by SpecBus
SleepHorizon == 106      \* ms of wake time explored by SpecSleep
GraceWindow == 2         \* SpecSleep: buttons move in the last ms of the grace period
TapHorizon == 1600       \* SpecTap: ms of wake time followed while the button is held
GestureHorizon == 330    \* SpecGesture: ms of wake time explored
FastWindow == 22         \* ms after a press within which the fastest next press begins
SlowFrom == 228          \* first ms after a press at which a slow next press begins
SlowTo == 231            \* last ms after a press at which a slow next press begins
MediumFrom == 128        \* in the game: first ms after a press at which a next press near 150 ms begins
MediumTo == 130          \* in the game: last ms after a press at which such a press begins
LateBy == 700            \* SpecGame: ms of wake time followed after a tap that was not the fastest
EntryBy == 170           \* SpecGame: ms of wake time followed without the game entered
GameHorizon == 1750      \* SpecGame: ms of wake time explored
RegameHorizon == 200     \* SpecRegame: ms of wake time followed after the wake
FlashHorizon == 16300    \* SpecFlash: ms of wake time followed while the button is held
ReleaseHorizon == 7800   \* SpecRelease: ms of wake time followed while the button is held
ReleaseAt == 100         \* SpecFlash: ms left of a pattern stage when the button is let go
ReleaseAbove == 200      \* SpecFlash: the button is let go in rounds with at least this delay

---------------------------------------------------------------------------
(* 8-bit arithmetic *)
Pow2(n) == IF n = 0 THEN 1 ELSE IF n = 1 THEN 2 ELSE IF n = 2 THEN 4
           ELSE IF n = 3 THEN 8 ELSE IF n = 4 THEN 16 ELSE IF n = 5 THEN 32
           ELSE IF n = 6 THEN 64 ELSE IF n = 7 THEN 128 ELSE 256
Bit(x, n) == (x \div Pow2(n)) % 2
And8(a, b) == Bit(a,0)*Bit(b,0) + 2*Bit(a,1)*Bit(b,1) + 4*Bit(a,2)*Bit(b,2)
            + 8*Bit(a,3)*Bit(b,3) + 16*Bit(a,4)*Bit(b,4) + 32*Bit(a,5)*Bit(b,5)
            + 64*Bit(a,6)*Bit(b,6) + 128*Bit(a,7)*Bit(b,7)
Not8(a) == 255 - a
Or8(a, b) == Not8(And8(Not8(a), Not8(b)))

(* Charlieplex tables, indexed by slot 0..7 *)
PORTTableRowCopied == <<1, 2, 16, 32, 32, 32, 16, 2>>
TRISTable == <<252, 252, 207, 207, 222, 222, 237, 237>>
PORTTable == <<1, 2, 16, 32, 32, 1, 16, 2>>

(* LED wiring (header comment of main.c): each LED conducts from the pin that *)
(* must be 1 to the pin that must be 0.                                        *)
LEDs == {"D1", "D2", "D3", "D4", "D5", "D6", "D7", "D8"}
Anode == [d \in LEDs |-> CASE d = "D1" -> 4 [] d = "D2" -> 5 [] d = "D3" -> 0
                           [] d = "D4" -> 1 [] d = "D5" -> 1 [] d = "D6" -> 4
                           [] d = "D7" -> 5 [] d = "D8" -> 0]
Cathode == [d \in LEDs |-> CASE d = "D1" -> 5 [] d = "D2" -> 4 [] d = "D3" -> 1
                             [] d = "D4" -> 0 [] d = "D5" -> 4 [] d = "D6" -> 1
                             [] d = "D7" -> 0 [] d = "D8" -> 5]
BusPins == {0, 1, 4, 5}
IsOutput(tris, p) == Bit(tris, p) = 0
DrivenHigh(tris, port, p) == IsOutput(tris, p) /\ Bit(port, p) = 1
DrivenLow(tris, port, p) == IsOutput(tris, p) /\ Bit(port, p) = 0
Energized(tris, port) ==
  {d \in LEDs : DrivenHigh(tris, port, Anode[d]) /\ DrivenLow(tris, port, Cathode[d])}

(* SetLEDOn / SetLEDOff / SetAllLEDsOff, as functions of the bitmask *)
SetLEDOn(m, LED) == Or8(m, LED)
SetLEDOff(m, LED) == And8(m, Not8(LED))
\* SetAllLEDsOff that leaves the bitmask as it is.
SetAllLEDsOffKeepsMask == LEDOns
SetAllLEDsOff == 0


---------------------------------------------------------------------------
(* TMR0_Callback: Charlieplex driver and 1 ms timer bank *)

\* A countdown without its test for zero: an 8-bit decrement that wraps.
DecUnguarded(t) == (t + 255) % 256

\* if (t) { t--; }
Dec(t) == IF t # 0 THEN t - 1 ELSE t
IncWake(w) == IF w < WakeCap THEN w + 1 ELSE w

\* i = (uint8_t)(1 << LEDState); if (i & LEDOns)
SlotIsOn == And8(Pow2(LEDState) % 256, LEDOns) # 0

\* The 1 ms tasks run one slot early, so that the cursor cycles through 7 slots.
AdvanceAndEpochOnSlotSix ==
  IF LEDState + 1 = TICKS_PER_MS - 1
  THEN /\ WakeTimer' = IncWake(WakeTimer)
       /\ PatternDelay' = [i \in 0..(NUMBER_OF_PATTERNS - 1) |-> Dec(PatternDelay[i])]
       /\ LEDState' = 0
       /\ LeftDebounceTimer' = Dec(LeftDebounceTimer)
       /\ RightDebounceTimer' = Dec(RightDebounceTimer)
       /\ ShutdownDelayTimer' = Dec(ShutdownDelayTimer)
  ELSE /\ LEDState' = LEDState + 1
       /\ UNCHANGED <<WakeTimer, PatternDelay, LeftDebounceTimer, RightDebounceTimer,
                      ShutdownDelayTimer>>

\* LEDState++; if (LEDState == 8) { the 1 ms tasks; LEDState = 0; }
AdvanceAndEpoch ==
  IF LEDState + 1 = TICKS_PER_MS
  THEN /\ WakeTimer' = IncWake(WakeTimer)
       /\ PatternDelay' = [i \in 0..(NUMBER_OF_PATTERNS - 1) |-> Dec(PatternDelay[i])]
       /\ LEDState' = 0
       /\ LeftDebounceTimer' = Dec(LeftDebounceTimer)
       /\ RightDebounceTimer' = Dec(RightDebounceTimer)
       /\ ShutdownDelayTimer' = Dec(ShutdownDelayTimer)
  ELSE /\ LEDState' = LEDState + 1
       /\ UNCHANGED <<WakeTimer, PatternDelay, LeftDebounceTimer, RightDebounceTimer,
                      ShutdownDelayTimer>>

mainOnly == <<LEDOns, PatternState, LeftButtonState, RightButtonState,
              LastRightButtonPressTime, right_delay, left_delay, num_leds_lit,
              last_button_press_time, next_decrement_time, LastLeftButtonState,
              LastRightButtonState, LeftButtonQuickPressCount>>
ghostVars == <<edges, glitch, armTime, stamp>>

\* The busy delays count CPU time; one timer period of it passes per interrupt.
\* A busy delay that the timer does not count down.
DelayStands == delayLeft' = delayLeft
DelayElapses == delayLeft' = Dec(delayLeft)

\* The timer interrupt preempts the main loop (interrupts are enabled for good
\* in main); a step of the main loop lasts at most MaxLag timer periods unless
\* it is a busy delay.
MainWaits == pc \in {"Settle", "Celebrate"} /\ delayLeft > 0
Preempts ==
  /\ isr = "idle"
  /\ pc # "Sleeping"
  /\ MainWaits \/ lag < MaxLag
  /\ lag' = IF MainWaits THEN 0 ELSE lag + 1
\* A step of the main loop: only outside the handler.
Running == isr = "idle" /\ lag' = 0

\* History: the values WakeTimer holds while the main loop is reading its bytes.
HeldTracks == rdHeld' = IF rd # <<>> THEN rdHeld \cup {WakeTimer'} ELSE rdHeld

\* The handler with "default all LEDs to be off" done on the bitmask as well.
TMR0_CallbackClearsMask ==
  /\ Preempts
  /\ TRISA' = IF SlotIsOn THEN TRISTable[LEDState + 1] ELSE TRISA_LEDS_ALL_OUTUPT
  /\ PORTA' = IF SlotIsOn THEN PORTTable[LEDState + 1] ELSE PORTA_LEDS_ALL_LOW
  /\ LEDOns' = IF SlotIsOn THEN LEDOns ELSE 0
  /\ AdvanceAndEpoch
  /\ DelayElapses
  /\ HeldTracks
  /\ UNCHANGED <<PatternState, LeftButtonState, RightButtonState,
                 LastRightButtonPressTime, right_delay, left_delay, num_leds_lit,
                 last_button_press_time, next_decrement_time, LastLeftButtonState,
                 LastRightButtonState, LeftButtonQuickPressCount,
                 RA2, RA3, pc, isr, blink, ButtonSeen, rd, ghostVars>>

\* One whole invocation of the handler (the main loop cannot run inside it).
TMR0_Callback ==
  /\ Preempts
  /\ TRISA' = IF SlotIsOn THEN TRISTable[LEDState + 1] ELSE TRISA_LEDS_ALL_OUTUPT
  /\ PORTA' = IF SlotIsOn THEN PORTTable[LEDState + 1] ELSE PORTA_LEDS_ALL_LOW
  /\ AdvanceAndEpoch
  /\ DelayElapses
  /\ HeldTracks
  /\ UNCHANGED <<mainOnly, RA2, RA3, pc, isr, blink, ButtonSeen, rd, ghostVars>>

\* The same handler, one register write per step.
isrFrame == <<LEDOns, LEDState, PatternDelay, PatternState, WakeTimer,
              ShutdownDelayTimer, LeftDebounceTimer, RightDebounceTimer,
              LeftButtonState, RightButtonState, LastRightButtonPressTime,
              right_delay, left_delay, num_leds_lit, last_button_press_time,
              next_decrement_time, LastLeftButtonState, LastRightButtonState,
              LeftButtonQuickPressCount, RA2, RA3, pc, delayLeft, blink, ButtonSeen,
              rd, rdHeld, ghostVars>>
ISR_TrisAllOutput ==
  /\ Preempts
  /\ TRISA' = TRISA_LEDS_ALL_OUTUPT
  /\ isr' = "tris_all"
  /\ UNCHANGED <<PORTA, isrFrame>>
ISR_PortAllLow ==
  /\ isr = "tris_all"
  /\ PORTA' = PORTA_LEDS_ALL_LOW
  /\ isr' = IF SlotIsOn THEN "port_low" ELSE "advance"
  /\ UNCHANGED <<TRISA, lag, isrFrame>>
ISR_TrisRow ==
  /\ isr = "port_low"
  /\ TRISA' = TRISTable[LEDState + 1]
  /\ isr' = "tris_row"
  /\ UNCHANGED <<PORTA, lag, isrFrame>>
ISR_PortRow ==
  /\ isr = "tris_row"
  /\ PORTA' = PORTTable[LEDState + 1]
  /\ isr' = "advance"
  /\ UNCHANGED <<TRISA, lag, isrFrame>>
ISR_Advance ==
  /\ isr = "advance"
  /\ AdvanceAndEpoch
  /\ DelayElapses
  /\ isr' = "idle"
  /\ UNCHANGED <<TRISA, PORTA, mainOnly, RA2, RA3, pc, blink, ButtonSeen, rd, rdHeld,
                 lag, ghostVars>>


---------------------------------------------------------------------------
(* Buttons *)

RightButtonPressedRaw == RA3 = 0
LeftButtonPressedRaw == RA2 = 0
RightButtonPressed == RightButtonState = BUTTON_STATE_PRESSED
LeftButtonPressed == LeftButtonState = BUTTON_STATE_PRESSED

U8(x) == x % 256
U16(x) == x % 65536
\* uint32_t sums stay below 2^32: WakeTimer <= WakeCap, so no 32-bit wrap is modelled.

\* Debounce without the test of the countdown.
DebounceNoCountdown(raw, state, timer) ==
  IF raw
  THEN IF state = BUTTON_STATE_PRESSED_TIMING
       THEN <<BUTTON_STATE_PRESSED, timer>>
       ELSE IF state # BUTTON_STATE_PRESSED
            THEN <<BUTTON_STATE_PRESSED_TIMING, BUTTON_DEBOUNCE_MS>>
            ELSE <<state, timer>>
  ELSE IF state = BUTTON_STATE_RELEASED_TIMING
       THEN <<BUTTON_STATE_RELEASED, timer>>
       ELSE IF state # BUTTON_STATE_RELEASED
            THEN <<BUTTON_STATE_RELEASED_TIMING, BUTTON_DEBOUNCE_MS>>
            ELSE <<state, timer>>

\* Debounce with the countdown restarted at every sample of a committed level.
DebounceRestarts(raw, state, timer) ==
  IF raw
  THEN IF state = BUTTON_STATE_PRESSED_TIMING
       THEN IF timer = 0 THEN <<BUTTON_STATE_PRESSED, timer>> ELSE <<state, timer>>
       ELSE IF state # BUTTON_STATE_PRESSED
            THEN <<BUTTON_STATE_PRESSED_TIMING, BUTTON_DEBOUNCE_MS>>
            ELSE <<state, BUTTON_DEBOUNCE_MS>>
  ELSE IF state = BUTTON_STATE_RELEASED_TIMING
       THEN IF timer = 0 THEN <<BUTTON_STATE_RELEASED, timer>> ELSE <<state, timer>>
       ELSE IF state # BUTTON_STATE_RELEASED
            THEN <<BUTTON_STATE_RELEASED_TIMING, BUTTON_DEBOUNCE_MS>>
            ELSE <<state, BUTTON_DEBOUNCE_MS>>

\* One button's debounce step of CheckForButtonPushes: <<state, timer>> afterwards.
Debounce(raw, state, timer) ==
  IF raw
  THEN IF state = BUTTON_STATE_PRESSED_TIMING
       THEN IF timer = 0 THEN <<BUTTON_STATE_PRESSED, timer>> ELSE <<state, timer>>
       ELSE IF state # BUTTON_STATE_PRESSED
            THEN <<BUTTON_STATE_PRESSED_TIMING, BUTTON_DEBOUNCE_MS>>
            ELSE <<state, timer>>
  ELSE IF state = BUTTON_STATE_RELEASED_TIMING
       THEN IF timer = 0 THEN <<BUTTON_STATE_RELEASED, timer>> ELSE <<state, timer>>
       ELSE IF state # BUTTON_STATE_RELEASED
            THEN <<BUTTON_STATE_RELEASED_TIMING, BUTTON_DEBOUNCE_MS>>
            ELSE <<state, timer>>

\* History of a glitch: a committed button (state) sees the opposite raw level
\* on one sample ("during"), then its original level again ("after").
GlitchNext(g, raw, state) ==
  IF state = BUTTON_STATE_PRESSED /\ ~raw THEN "duringP"
  ELSE IF state = BUTTON_STATE_RELEASED /\ raw THEN "duringR"
  ELSE IF g \in {"duringP", "afterP"} /\ raw THEN "afterP"
  ELSE IF g \in {"duringR", "afterR"} /\ ~raw THEN "afterR"
  ELSE "none"

\* The comparison the wrong way round.
IsQuickPressReversed == WakeTimer > (LastRightButtonPressTime + QUICK_PRESS_MS)

\* if (WakeTimer < (LastRightButtonPressTime + QUICK_PRESS_MS))
IsQuickPress == WakeTimer < (LastRightButtonPressTime + QUICK_PRESS_MS)

\* The body of CheckForButtonPushes; its return value is CheckReturn.
CheckForButtonPushes ==
  LET l == Debounce(LeftButtonPressedRaw, LeftButtonState, LeftDebounceTimer)
      r == Debounce(RightButtonPressedRaw, RightButtonState, RightDebounceTimer)
      leftPressed == l[1] = BUTTON_STATE_PRESSED
      rightPressed == r[1] = BUTTON_STATE_PRESSED
      newLeft == leftPressed /\ ~LastLeftButtonState
      newRight == rightPressed /\ ~LastRightButtonState
      counted == newRight /\ leftPressed /\ IsQuickPress
      count == IF newRight /\ leftPressed
               THEN IF IsQuickPress THEN U8(LeftButtonQuickPressCount + 1) ELSE 0
               ELSE LeftButtonQuickPressCount
      game == counted /\ count = 4
      ps1 == IF newLeft THEN [PatternState EXCEPT ![PATTERN_LEFT_FLASH] = 1]
             ELSE PatternState
      ps2 == IF ~newRight THEN ps1
             ELSE IF game
                  THEN [ps1 EXCEPT ![PATTERN_RIGHT_FLASH] = 0, ![PATTERN_LEFT_FLASH] = 0,
                                   ![PATTERN_RIGHT_GAME] = 1]
                  ELSE [ps1 EXCEPT ![PATTERN_RIGHT_FLASH] = 1]
  IN /\ LeftButtonState' = l[1]
     /\ LeftDebounceTimer' = l[2]
     /\ RightButtonState' = r[1]
     /\ RightDebounceTimer' = r[2]
     /\ LastLeftButtonState' = leftPressed
     /\ LastRightButtonState' = rightPressed
     /\ LeftButtonQuickPressCount' = count
     /\ PatternState' = ps2
     /\ LastRightButtonPressTime' = IF newRight THEN WakeTimer ELSE LastRightButtonPressTime
     /\ stamp' = IF newRight THEN "current" ELSE stamp
     /\ glitch' = [L |-> GlitchNext(glitch.L, LeftButtonPressedRaw, LeftButtonState),
                   R |-> GlitchNext(glitch.R, RightButtonPressedRaw, RightButtonState)]
CheckReturn == LeftButtonPressedRaw \/ RightButtonPressedRaw

\* What CheckForButtonPushes leaves alone.
checkFrame == <<TRISA, PORTA, RA2, RA3, LEDOns, LEDState, PatternDelay, WakeTimer,
                ShutdownDelayTimer, right_delay, left_delay, num_leds_lit,
                last_button_press_time, next_decrement_time, isr, delayLeft, blink,
                rd, rdHeld, edges, armTime>>

---------------------------------------------------------------------------
(* Flash patterns *)

\* The switch with a case 10 that leaves the LEDs as they are.
FlashLEDsKeptAtTen(m, s, R, G, B, Y) ==
  LET only(on) == SetLEDOn(SetLEDOff(SetLEDOff(SetLEDOff(SetLEDOff(m, R), G), B), Y), on)
  IN CASE s \in {1, 7} -> only(R)
       [] s \in {2, 6} -> only(G)
       [] s \in {3, 5} -> only(B)
       [] s = 4 -> only(Y)
       [] s = 8 -> SetLEDOn(SetLEDOn(SetLEDOn(SetLEDOn(m, R), G), B), Y)
       [] s = 9 -> SetLEDOff(SetLEDOff(SetLEDOff(SetLEDOff(m, R), G), B), Y)
       [] OTHER -> m

\* The switch with the single LED of a state assigned to the bitmask (=, not |=).
FlashLEDsAssigned(m, s, R, G, B, Y) ==
  CASE s \in {1, 7} -> R
    [] s \in {2, 6} -> G
    [] s \in {3, 5} -> B
    [] s = 4 -> Y
    [] s = 8 -> SetLEDOn(SetLEDOn(SetLEDOn(SetLEDOn(m, R), G), B), Y)
    [] s \in {9, 10} -> SetLEDOff(SetLEDOff(SetLEDOff(SetLEDOff(m, R), G), B), Y)
    [] OTHER -> m

\* The switch of RunRightFlash / RunLeftFlash on the LED bitmask m, for the
\* side whose LEDs are R, G, B, Y.
FlashLEDs(m, s, R, G, B, Y) ==
  LET only(on) == SetLEDOn(SetLEDOff(SetLEDOff(SetLEDOff(SetLEDOff(m, R), G), B), Y), on)
  IN CASE s \in {1, 7} -> only(R)
       [] s \in {2, 6} -> only(G)
       [] s \in {3, 5} -> only(B)
       [] s = 4 -> only(Y)
       [] s = 8 -> SetLEDOn(SetLEDOn(SetLEDOn(SetLEDOn(m, R), G), B), Y)
       [] s \in {9, 10} -> SetLEDOff(SetLEDOff(SetLEDOff(SetLEDOff(m, R), G), B), Y)
       [] OTHER -> m

\* The switch without its default branch.
FlashSwitchNoDefault(s) == IF s = 10 THEN PATTERN_OFF_STATE ELSE s

\* The pattern state after the switch (case 10 and default reset it).
FlashSwitch(s) == IF s \in 1..9 THEN s ELSE PATTERN_OFF_STATE

\* The move with the acceleration continued down to a delay of 0.
FlashMoveNoFloor(s, pressed, d) ==
  IF s = 7
  THEN IF pressed
       THEN IF d > 0 THEN <<2, U16(d * 80) \div 100>> ELSE <<8, SLOW_DELAY>>
       ELSE <<10, d>>
  ELSE IF s = 9 /\ pressed
       THEN IF d > 10 THEN <<8, U16(d * 95) \div 100>> ELSE <<1, SLOW_DELAY>>
       ELSE <<U8(s + 1), d>>

\* The move with a state 9 that does not look at the button.
FlashMoveShimmerSticks(s, pressed, d) ==
  IF s = 7
  THEN IF pressed
       THEN IF d > 3 THEN <<2, U16(d * 80) \div 100>> ELSE <<8, SLOW_DELAY>>
       ELSE <<10, d>>
  ELSE IF s = 9
       THEN IF d > 10 THEN <<8, U16(d * 95) \div 100>> ELSE <<1, SLOW_DELAY>>
       ELSE <<U8(s + 1), d>>

\* The move with the shimmer accelerated by a tenth at each decision.
FlashMoveShimmerByTenth(s, pressed, d) ==
  IF s = 7
  THEN IF pressed
       THEN IF d > 3 THEN <<2, U16(d * 80) \div 100>> ELSE <<8, SLOW_DELAY>>
       ELSE <<10, d>>
  ELSE IF s = 9 /\ pressed
       THEN IF d > 10 THEN <<8, U16(d * 90) \div 100>> ELSE <<1, SLOW_DELAY>>
       ELSE <<U8(s + 1), d>>

\* "Move to the next state", for a state s # 0: <<state, delay>> afterwards.
FlashMove(s, pressed, d) ==
  IF s = 7
  THEN IF pressed
       THEN IF d > 3 THEN <<2, U16(d * 80) \div 100>> ELSE <<8, SLOW_DELAY>>
       ELSE <<10, d>>
  ELSE IF s = 9 /\ pressed
       THEN IF d > 10 THEN <<8, U16(d * 95) \div 100>> ELSE <<1, SLOW_DELAY>>
       ELSE <<U8(s + 1), d>>

\* One call of a flash engine for pattern p: <<LEDOns, state, side delay, PatternDelay[p]>>.
RunFlash(p, pressed, d, R, G, B, Y) ==
  IF PatternDelay[p] # 0
  THEN <<LEDOns, PatternState[p], d, PatternDelay[p]>>
  ELSE LET s == PatternState[p]
           d0 == IF s = 0 THEN SLOW_DELAY ELSE d
           s1 == FlashSwitch(s)
           mv == FlashMove(s1, pressed, d0)
       IN IF s1 # 0
          THEN <<FlashLEDs(LEDOns, s, R, G, B, Y), mv[1], mv[2], mv[2]>>
          ELSE <<FlashLEDs(LEDOns, s, R, G, B, Y), s1, d0, PatternDelay[p]>>

mainFrame == <<TRISA, PORTA, RA2, RA3, LEDState, isr, edges>>

RunRightFlash ==
  /\ pc = "RunRightFlash" /\ Running
  /\ LET f == RunFlash(PATTERN_RIGHT_FLASH, RightButtonPressed, right_delay,
                       LED_R_RED, LED_R_GREEN, LED_R_BLUE, LED_R_YELLOW)
     IN /\ LEDOns' = f[1]
        /\ PatternState' = [PatternState EXCEPT ![PATTERN_RIGHT_FLASH] = f[2]]
        /\ right_delay' = f[3]
        /\ PatternDelay' = [PatternDelay EXCEPT ![PATTERN_RIGHT_FLASH] = f[4]]
  /\ pc' = "RunLeftFlash"
  /\ UNCHANGED <<mainFrame, WakeTimer, ShutdownDelayTimer, LeftDebounceTimer,
                 RightDebounceTimer, LeftButtonState, RightButtonState,
                 LastRightButtonPressTime, left_delay, num_leds_lit,
                 last_button_press_time, next_decrement_time, LastLeftButtonState,
                 LastRightButtonState, LeftButtonQuickPressCount, delayLeft, blink,
                 ButtonSeen, rd, rdHeld, glitch, armTime, stamp>>

RunLeftFlash ==
  /\ pc = "RunLeftFlash" /\ Running
  /\ LET f == RunFlash(PATTERN_LEFT_FLASH, LeftButtonPressed, left_delay,
                       LED_L_RED, LED_L_GREEN, LED_L_BLUE, LED_L_YELLOW)
     IN /\ LEDOns' = f[1]
        /\ PatternState' = [PatternState EXCEPT ![PATTERN_LEFT_FLASH] = f[2]]
        /\ left_delay' = f[3]
        /\ PatternDelay' = [PatternDelay EXCEPT ![PATTERN_LEFT_FLASH] = f[4]]
  /\ pc' = "RunGame"
  /\ UNCHANGED <<mainFrame, WakeTimer, ShutdownDelayTimer, LeftDebounceTimer,
                 RightDebounceTimer, LeftButtonState, RightButtonState,
                 LastRightButtonPressTime, right_delay, num_leds_lit,
                 last_button_press_time, next_decrement_time, LastLeftButtonState,
                 LastRightButtonState, LeftButtonQuickPressCount, delayLeft, blink,
                 ButtonSeen, rd, rdHeld, glitch, armTime, stamp>>


---------------------------------------------------------------------------
(* Game *)

GameOrder == <<LED_R_RED, LED_R_GREEN, LED_R_BLUE, LED_R_YELLOW,
               LED_L_YELLOW, LED_L_BLUE, LED_L_GREEN, LED_L_RED>>

\* switch(num_leds_lit): cases 1..8 turn the first n LEDs of GameOrder on and
\* the others off; case 0 and default leave the bitmask alone.
RECURSIVE GameBar(_, _, _)
GameBar(m, n, k) ==
  IF k > 8 THEN m
  ELSE GameBar(IF k <= n THEN SetLEDOn(m, GameOrder[k]) ELSE SetLEDOff(m, GameOrder[k]),
               n, k + 1)
GameRender(m, n) == IF n \in 1..8 THEN GameBar(m, n, 1) ELSE m

GameActive == PatternDelay[PATTERN_RIGHT_GAME] = 0 /\ PatternState[PATTERN_RIGHT_GAME] # 0
GameNewPress == last_button_press_time # LastRightButtonPressTime
\* The comparison with the bound included.
GameQuickInclusive == LastRightButtonPressTime <= (last_button_press_time + GAME_PRESS_MS)
GameQuick == LastRightButtonPressTime < (last_button_press_time + GAME_PRESS_MS)
\* The win one LED late.
GameWinAtTen == GameActive /\ GameNewPress /\ GameQuick /\ U8(num_leds_lit + 1) > 9
GameWin == GameActive /\ GameNewPress /\ GameQuick /\ U8(num_leds_lit + 1) > 8

\* "Decrement LED count every so many milliseconds", from lit count n.
GameDecrement(n) ==
  IF WakeTimer > next_decrement_time
  THEN /\ next_decrement_time' = WakeTimer + GAME_DECREMENT_MS
       /\ num_leds_lit' = Dec(n)
  ELSE /\ next_decrement_time' = next_decrement_time
       /\ num_leds_lit' = n

gameFrame == <<mainFrame, PatternDelay, PatternState, WakeTimer, ShutdownDelayTimer,
               LeftDebounceTimer, RightDebounceTimer, LeftButtonState, RightButtonState,
               LastRightButtonPressTime, right_delay, left_delay, LastLeftButtonState,
               LastRightButtonState, LeftButtonQuickPressCount, ButtonSeen, rd, rdHeld,
               glitch, armTime, stamp>>

\* RunGame up to its return, or up to the first __delay_ms of the win celebration.
RunGame ==
  /\ pc = "RunGame" /\ Running
  /\ IF ~GameActive
     THEN /\ pc' = "Policy"
          /\ UNCHANGED <<LEDOns, num_leds_lit, last_button_press_time,
                         next_decrement_time, delayLeft, blink>>
     ELSE IF GameWin
     THEN /\ num_leds_lit' = 0
          /\ LEDOns' = SetLEDOn(GameRender(LEDOns, num_leds_lit), 255)
          /\ delayLeft' = WIN_BLINK_MS * TICKS_PER_MS
          /\ blink' = 1
          /\ pc' = "Celebrate"
          /\ UNCHANGED <<last_button_press_time, next_decrement_time>>
     ELSE /\ LEDOns' = GameRender(LEDOns, num_leds_lit)
          /\ last_button_press_time' = LastRightButtonPressTime
          /\ GameDecrement(IF GameNewPress /\ GameQuick THEN U8(num_leds_lit + 1)
                           ELSE num_leds_lit)
          /\ pc' = "Policy"
          /\ UNCHANGED <<delayLeft, blink>>
  /\ UNCHANGED gameFrame

\* The rest of the win celebration: after each __delay_ms(100) the next write,
\* and after the last one the end of RunGame.
Celebrate ==
  /\ pc = "Celebrate" /\ Running /\ delayLeft = 0
  /\ IF blink < 10
     THEN /\ LEDOns' = IF blink % 2 = 1 THEN SetLEDOff(LEDOns, 255) ELSE SetLEDOn(LEDOns, 255)
          /\ delayLeft' = WIN_BLINK_MS * TICKS_PER_MS
          /\ blink' = blink + 1
          /\ UNCHANGED <<pc, num_leds_lit, last_button_press_time, next_decrement_time>>
     ELSE /\ last_button_press_time' = LastRightButtonPressTime
          /\ GameDecrement(num_leds_lit)
          /\ blink' = 0
          /\ pc' = "Policy"
          /\ UNCHANGED <<LEDOns, delayLeft>>
  /\ UNCHANGED gameFrame

---------------------------------------------------------------------------
(* Sleep policy: the rest of the main loop *)

\* The scan over the two flash patterns only.
AFlashPatternIsRunning ==
  \E i \in {PATTERN_RIGHT_FLASH, PATTERN_LEFT_FLASH} : PatternState[i] # 0
APatternIsRunning == \E i \in 0..(NUMBER_OF_PATTERNS - 1) : PatternState[i] # 0
Idle == ~APatternIsRunning /\ RightDebounceTimer = 0 /\ LeftDebounceTimer = 0
ShouldShutDown(wake) == Idle \/ wake > MAX_AWAKE_TIME_MS

policyFrame == <<mainFrame, PatternDelay, PatternState, WakeTimer, LeftDebounceTimer,
                 RightDebounceTimer, LeftButtonState, RightButtonState,
                 LastRightButtonPressTime, right_delay, left_delay, num_leds_lit,
                 last_button_press_time, next_decrement_time, LastLeftButtonState,
                 LastRightButtonState, LeftButtonQuickPressCount, blink, rd, rdHeld,
                 glitch, stamp>>

\* The scan of PatternState and the test, on the value `wake` read from
\* WakeTimer; then SetAllLEDsOff and the start of __delay_ms(5).
PolicyOn(wake) ==
  /\ pc = "Policy" /\ Running
  /\ IF ShouldShutDown(wake)
     THEN /\ LEDOns' = SetAllLEDsOff
          /\ delayLeft' = LED_SETTLE_MS * TICKS_PER_MS
          /\ pc' = "Settle"
     ELSE /\ pc' = "Check"
          /\ UNCHANGED <<LEDOns, delayLeft>>
  /\ UNCHANGED <<mainFrame, PatternDelay, PatternState, WakeTimer, LeftDebounceTimer,
                 RightDebounceTimer, LeftButtonState, RightButtonState,
                 LastRightButtonPressTime, right_delay, left_delay, num_leds_lit,
                 last_button_press_time, next_decrement_time, LastLeftButtonState,
                 LastRightButtonState, LeftButtonQuickPressCount, blink,
                 glitch, stamp, ShutdownDelayTimer, ButtonSeen, armTime>>

\* The test with WakeTimer read in one piece.
Policy == PolicyOn(WakeTimer) /\ UNCHANGED <<rd, rdHeld>>

\* ShutdownDelayTimer = SHUTDOWN_DELAY_MS, once the delay is over.
Arm ==
  /\ pc = "Settle" /\ Running /\ delayLeft = 0
  /\ ShutdownDelayTimer' = SHUTDOWN_DELAY_MS
  /\ armTime' = WakeTimer
  /\ pc' = "SpinRead"
  /\ UNCHANGED <<policyFrame, LEDOns, delayLeft, ButtonSeen>>

\* while (ShutdownDelayTimer && ...): the read of the timer.
SpinRead ==
  /\ pc = "SpinRead" /\ Running
  /\ pc' = IF ShutdownDelayTimer # 0 THEN "SpinCheck" ELSE "Test"
  /\ ButtonSeen' = FALSE
  /\ UNCHANGED <<policyFrame, LEDOns, delayLeft, ShutdownDelayTimer, armTime>>

\* while (... && !CheckForButtonPushes()): the call.
SpinCheck ==
  /\ pc = "SpinCheck" /\ Running
  /\ CheckForButtonPushes
  /\ ButtonSeen' = CheckReturn
  /\ pc' = IF CheckReturn THEN "Test" ELSE "SpinRead"
  /\ UNCHANGED checkFrame

\* The test of the timer left out: sleep whenever the spin is over.
TestLeftOut ==
  /\ pc = "Test" /\ Running
  /\ pc' = "Sleep"
  /\ UNCHANGED <<policyFrame, LEDOns, delayLeft, ShutdownDelayTimer, ButtonSeen, armTime>>

\* if (ShutdownDelayTimer == 0)
Test ==
  /\ pc = "Test" /\ Running
  /\ pc' = IF ShutdownDelayTimer = 0 THEN "Sleep" ELSE "Check"
  /\ UNCHANGED <<policyFrame, LEDOns, delayLeft, ShutdownDelayTimer, ButtonSeen, armTime>>

\* VREGCONbits.VREGPM = 1; SLEEP();
Sleep ==
  /\ pc = "Sleep" /\ Running
  /\ pc' = "Sleeping"
  /\ UNCHANGED <<policyFrame, LEDOns, delayLeft, ShutdownDelayTimer, ButtonSeen, armTime>>

\* WakeTimer = 0, after the wake.
Woken ==
  /\ pc = "Woken" /\ Running
  /\ WakeTimer' = 0
  /\ stamp' = IF stamp = "none" THEN "none" ELSE "previous"
  /\ pc' = "Check"
  /\ UNCHANGED <<mainFrame, LEDOns, PatternDelay, PatternState, ShutdownDelayTimer,
                 LeftDebounceTimer, RightDebounceTimer, LeftButtonState, RightButtonState,
                 LastRightButtonPressTime, right_delay, left_delay, num_leds_lit,
                 last_button_press_time, next_decrement_time, LastLeftButtonState,
                 LastRightButtonState, LeftButtonQuickPressCount, delayLeft, blink,
                 ButtonSeen, rd, rdHeld, glitch, armTime>>

\* The CheckForButtonPushes() that ends a pass of the main loop.
Check ==
  /\ pc = "Check" /\ Running
  /\ CheckForButtonPushes
  /\ pc' = "RunRightFlash"
  /\ UNCHANGED <<checkFrame, ButtonSeen>>

---------------------------------------------------------------------------
(* Environment: the push-buttons. An edge on either pin ends SLEEP()        *)
(* (interrupt-on-change on both edges of RA2 and RA3, pin_manager.c).       *)
(* The program reads the pins only in CheckForButtonPushes, so a change of  *)
(* level is taken just before the sample that first sees it.                *)
Sampling == pc \in {"Check", "SpinCheck", "Sleeping"}

envFrame == <<progVars, isr, delayLeft, blink, ButtonSeen, rd, rdHeld, glitch, armTime,
              stamp>>
LeftButtonEdge ==
  /\ edges < MaxEdges /\ isr = "idle" /\ Sampling
  /\ lag' = lag
  /\ RA2' = 1 - RA2
  /\ edges' = edges + 1
  /\ pc' = IF pc = "Sleeping" THEN "Woken" ELSE pc
  /\ UNCHANGED <<envFrame, RA3>>
RightButtonEdge ==
  /\ edges < MaxEdges /\ isr = "idle" /\ Sampling
  /\ lag' = lag
  /\ RA3' = 1 - RA3
  /\ edges' = edges + 1
  /\ pc' = IF pc = "Sleeping" THEN "Woken" ELSE pc
  /\ UNCHANGED <<envFrame, RA2>>

---------------------------------------------------------------------------
(* The state after SYSTEM_Initialize(), with both buttons up *)

Boot ==
  /\ TRISA = 63 /\ PORTA = 0
  /\ RA2 = 1 /\ RA3 = 1
  /\ LEDOns = 0 /\ LEDState = 0
  /\ PatternDelay = [i \in 0..(NUMBER_OF_PATTERNS - 1) |-> 0]
  /\ PatternState = [i \in 0..(NUMBER_OF_PATTERNS - 1) |-> 0]
  /\ WakeTimer = 0 /\ ShutdownDelayTimer = 0
  /\ LeftDebounceTimer = 0 /\ RightDebounceTimer = 0
  /\ LeftButtonState = BUTTON_STATE_IDLE /\ RightButtonState = BUTTON_STATE_IDLE
  /\ LastRightButtonPressTime = 0
  /\ right_delay = SLOW_DELAY /\ left_delay = SLOW_DELAY
  /\ num_leds_lit = 1 /\ last_button_press_time = 0 /\ next_decrement_time = 0
  /\ LastLeftButtonState = FALSE /\ LastRightButtonState = FALSE
  /\ LeftButtonQuickPressCount = 0
  /\ pc = "RunRightFlash" /\ isr = "idle"
  /\ delayLeft = 0 /\ blink = 0 /\ ButtonSeen = FALSE
  /\ rd = <<>> /\ rdHeld = {} /\ lag = 0
  /\ edges = 0 /\ glitch = [L |-> "none", R |-> "none"] /\ armTime = 0 /\ stamp = "none"

LoopStep == RunRightFlash \/ RunLeftFlash \/ RunGame \/ Arm \/ SpinRead
            \/ SpinCheck \/ Test \/ Check
MainStep == LoopStep \/ Policy

---------------------------------------------------------------------------
(* Spec: the first DebounceHorizon ms after boot, any button activity *)

Tick == WakeTimer < DebounceHorizon /\ TMR0_Callback
Init == Boot
Next == MainStep \/ Tick \/ LeftButtonEdge \/ RightButtonEdge
Spec == Init /\ [][Next]_vars


---------------------------------------------------------------------------
(* Properties of the debounce machine, under Spec *)

CheckStep == pc \in {"Check", "SpinCheck"} /\ pc' # pc
NewLeftPress == ~LastLeftButtonState /\ LastLeftButtonState'
NewRightPress == ~LastRightButtonState /\ LastRightButtonState'
GameEntered == /\ PatternState'[PATTERN_RIGHT_GAME] = 1
               /\ LeftButtonQuickPressCount' = 4
               /\ LeftButtonQuickPressCount = 3

\* C1: a single-sample glitch on a committed button leaves the value of
\* LeftButtonPressed()/RightButtonPressed() as it was before the glitch, during
\* and after it, and starts no new press (PatternState[side] = 1).
C1_GlitchKeepsLogicalState ==
  [][ /\ glitch'.L \in {"duringP", "afterP"}
           => (LeftButtonState' = BUTTON_STATE_PRESSED /\ ~NewLeftPress)
      /\ glitch'.L \in {"duringR", "afterR"}
           => (LeftButtonState' # BUTTON_STATE_PRESSED /\ ~NewLeftPress)
      /\ glitch'.R \in {"duringP", "afterP"}
           => (RightButtonState' = BUTTON_STATE_PRESSED /\ ~NewRightPress)
      /\ glitch'.R \in {"duringR", "afterR"}
           => (RightButtonState' # BUTTON_STATE_PRESSED /\ ~NewRightPress) ]_vars

\* C2: a button sampled pressed until the 20 ms countdown armed by the first
\* sample has run out commits to Pressed on the next sample, and the new-press
\* action (PatternState[side] = 1, or the switch to the game in that call; for the
\* right button LastRightButtonPressTime = WakeTimer) runs in that call and in
\* no call that does not take the button from not-Pressed to Pressed.
C2_PressFiresOnce ==
  [][ /\ (CheckStep /\ RightButtonPressedRaw
            /\ RightButtonState = BUTTON_STATE_PRESSED_TIMING /\ RightDebounceTimer = 0)
           => (RightButtonState' = BUTTON_STATE_PRESSED /\ NewRightPress)
      /\ (CheckStep /\ LeftButtonPressedRaw
            /\ LeftButtonState = BUTTON_STATE_PRESSED_TIMING /\ LeftDebounceTimer = 0)
           => (LeftButtonState' = BUTTON_STATE_PRESSED /\ NewLeftPress)
      /\ (RightButtonState # BUTTON_STATE_PRESSED /\ RightButtonState' = BUTTON_STATE_PRESSED)
           => (RightButtonState = BUTTON_STATE_PRESSED_TIMING /\ RightDebounceTimer = 0)
      /\ (LeftButtonState # BUTTON_STATE_PRESSED /\ LeftButtonState' = BUTTON_STATE_PRESSED)
           => (LeftButtonState = BUTTON_STATE_PRESSED_TIMING /\ LeftDebounceTimer = 0)
      /\ (RightButtonState # BUTTON_STATE_PRESSED_TIMING
            /\ RightButtonState' = BUTTON_STATE_PRESSED_TIMING)
           => RightDebounceTimer' = BUTTON_DEBOUNCE_MS
      /\ (LeftButtonState # BUTTON_STATE_PRESSED_TIMING
            /\ LeftButtonState' = BUTTON_STATE_PRESSED_TIMING)
           => LeftDebounceTimer' = BUTTON_DEBOUNCE_MS
      /\ (CheckStep /\ RightButtonPressedRaw /\ RightButtonState = BUTTON_STATE_PRESSED_TIMING)
           => RightDebounceTimer' = RightDebounceTimer
      /\ (CheckStep /\ LeftButtonPressedRaw /\ LeftButtonState = BUTTON_STATE_PRESSED_TIMING)
           => LeftDebounceTimer' = LeftDebounceTimer
      /\ NewRightPress
           => /\ RightButtonState # BUTTON_STATE_PRESSED
              /\ RightButtonState' = BUTTON_STATE_PRESSED
              /\ LastRightButtonPressTime' = WakeTimer
              /\ PatternState'[PATTERN_RIGHT_FLASH] = 1 \/ GameEntered
      /\ NewLeftPress
           => /\ LeftButtonState # BUTTON_STATE_PRESSED
              /\ LeftButtonState' = BUTTON_STATE_PRESSED
              /\ PatternState'[PATTERN_LEFT_FLASH] = 1 \/ GameEntered
      /\ (CheckStep /\ ~NewRightPress)
           => /\ LastRightButtonPressTime' = LastRightButtonPressTime
              /\ PatternState'[PATTERN_RIGHT_FLASH] = PatternState[PATTERN_RIGHT_FLASH]
      /\ (CheckStep /\ ~NewLeftPress /\ ~NewRightPress)
           => PatternState'[PATTERN_LEFT_FLASH] = PatternState[PATTERN_LEFT_FLASH] ]_vars
C2_BothCommitted ==
  /\ RightButtonState = BUTTON_STATE_PRESSED /\ LastRightButtonState
  /\ LeftButtonState = BUTTON_STATE_PRESSED /\ LastLeftButtonState
  /\ LastRightButtonPressTime >= BUTTON_DEBOUNCE_MS
  /\ PatternState[PATTERN_RIGHT_FLASH] # 0 /\ PatternState[PATTERN_LEFT_FLASH] # 0

\* C9: an invocation of TMR0_Callback (the only code that moves LEDState)
\* leaves LEDOns, PatternState, both debounce states and the last-press
\* timestamp as they were.
C9_HandlerFrame ==
  [][ LEDState' # LEDState
        => UNCHANGED <<LEDOns, PatternState, LeftButtonState, RightButtonState,
                       LastRightButtonPressTime>> ]_vars
C9_TickWithLitLED ==
  /\ LEDState = 3 /\ LEDOns # 0 /\ WakeTimer > BUTTON_DEBOUNCE_MS
  /\ PatternState[PATTERN_RIGHT_FLASH] # 0 /\ RightButtonState = BUTTON_STATE_PRESSED
  /\ LastRightButtonPressTime # 0

\* The software timers that the 1 ms epoch of TMR0_Callback counts down.
softTimers == <<PatternDelay, LeftDebounceTimer, RightDebounceTimer, ShutdownDelayTimer>>

\* C11: LEDState is in 0..7 before and after every step; every invocation of
\* TMR0_Callback (the only code that moves LEDState) advances it by one
\* modulo 8; the invocation that services slot 7 adds exactly 1 to WakeTimer,
\* and no other step changes WakeTimer or counts a software timer down.
C11_CursorAndEpoch ==
  [][ /\ LEDState \in 0..(TICKS_PER_MS - 1) /\ LEDState' \in 0..(TICKS_PER_MS - 1)
      /\ LEDState' # LEDState
           => /\ LEDState' = (LEDState + 1) % TICKS_PER_MS
              /\ IF LEDState = TICKS_PER_MS - 1
                 THEN WakeTimer' = WakeTimer + 1
                 ELSE UNCHANGED <<WakeTimer, softTimers>>
      /\ LEDState' = LEDState => WakeTimer' = WakeTimer ]_vars
C11_SecondEpochDone ==
  /\ WakeTimer = LED_SETTLE_MS + 2 /\ LEDState = 0 /\ ShutdownDelayTimer # 0
  /\ ShutdownDelayTimer < SHUTDOWN_DELAY_MS

\* C12: on the invocation of TMR0_Callback that services slot 7, each of
\* PatternDelay[0..7], LeftDebounceTimer, RightDebounceTimer and
\* ShutdownDelayTimer goes down by exactly 1 if it was nonzero and stays 0 if
\* it was 0; every timer stays within the value it was last loaded with.
C12_TimersCountDownToZero ==
  [][ /\ LEDState = TICKS_PER_MS - 1 /\ LEDState' = 0
           => /\ \A i \in 0..(NUMBER_OF_PATTERNS - 1) :
                    PatternDelay'[i] = IF PatternDelay[i] = 0 THEN 0 ELSE PatternDelay[i] - 1
              /\ LeftDebounceTimer' = IF LeftDebounceTimer = 0 THEN 0 ELSE LeftDebounceTimer - 1
              /\ RightDebounceTimer' = IF RightDebounceTimer = 0 THEN 0 ELSE RightDebounceTimer - 1
              /\ ShutdownDelayTimer' = IF ShutdownDelayTimer = 0 THEN 0 ELSE ShutdownDelayTimer - 1
      /\ \A i \in 0..(NUMBER_OF_PATTERNS - 1) : PatternDelay'[i] \in 0..SLOW_DELAY
      /\ LeftDebounceTimer' \in 0..BUTTON_DEBOUNCE_MS
      /\ RightDebounceTimer' \in 0..BUTTON_DEBOUNCE_MS
      /\ ShutdownDelayTimer' \in 0..SHUTDOWN_DELAY_MS ]_vars
C12_ZeroStaysNonzeroFalls ==
  /\ LEDState = 0 /\ LeftDebounceTimer = 0
  /\ ShutdownDelayTimer \in 1..(SHUTDOWN_DELAY_MS - 1)
  /\ RightDebounceTimer \in 1..(BUTTON_DEBOUNCE_MS - 1)
  /\ PatternDelay[PATTERN_LEFT_FLASH] \in 1..(SLOW_DELAY - 1)
  /\ PatternDelay[PATTERN_RIGHT_GAME] = 0



\* C25: a call of CheckForButtonPushes that finds a button committed (Pressed
\* with the raw level pressed, or Released with the raw level released) leaves
\* that button's debounce state and debounce timer as they were.
C25_CommittedLevelKeepsTimer ==
  [][ CheckStep =>
        /\ (\/ LeftButtonState = BUTTON_STATE_PRESSED /\ RA2 = 0
            \/ LeftButtonState = BUTTON_STATE_RELEASED /\ RA2 = 1)
             => UNCHANGED <<LeftButtonState, LeftDebounceTimer>>
        /\ (\/ RightButtonState = BUTTON_STATE_PRESSED /\ RA3 = 0
            \/ RightButtonState = BUTTON_STATE_RELEASED /\ RA3 = 1)
             => UNCHANGED <<RightButtonState, RightDebounceTimer>> ]_vars
C25_HeldPastCommit ==
  /\ pc = "RunRightFlash" /\ RA3 = 0 /\ RA2 = 1
  /\ RightButtonState = BUTTON_STATE_PRESSED /\ RightDebounceTimer = 0
  /\ LeftButtonState = BUTTON_STATE_RELEASED /\ LeftDebounceTimer = 0
  /\ WakeTimer > LastRightButtonPressTime /\ stamp = "current"
---------------------------------------------------------------------------
(* SpecBus: the handler one register write at a time, against a main loop    *)
(* that only calls SetLEDOn, SetLEDOff and SetAllLEDsOff                     *)

LEDArgs == {LED_R_RED, LED_R_GREEN, LED_R_BLUE, LED_R_YELLOW,
            LED_L_YELLOW, LED_L_BLUE, LED_L_GREEN, LED_L_RED, 255}
callFrame == <<TRISA, PORTA, RA2, RA3, LEDState, PatternDelay, PatternState, WakeTimer,
               ShutdownDelayTimer, LeftDebounceTimer, RightDebounceTimer,
               LeftButtonState, RightButtonState, LastRightButtonPressTime,
               right_delay, left_delay, num_leds_lit, last_button_press_time,
               next_decrement_time, LastLeftButtonState, LastRightButtonState,
               LeftButtonQuickPressCount, pc, isr, delayLeft, blink, ButtonSeen,
               rd, rdHeld, ghostVars>>
CallSetLEDOn ==
  /\ Running
  /\ \E LED \in LEDArgs : LEDOns' = SetLEDOn(LEDOns, LED)
  /\ UNCHANGED callFrame
CallSetLEDOff ==
  /\ Running
  /\ \E LED \in LEDArgs : LEDOns' = SetLEDOff(LEDOns, LED)
  /\ UNCHANGED callFrame
CallSetAllLEDsOff ==
  /\ Running
  /\ LEDOns' = SetAllLEDsOff
  /\ UNCHANGED callFrame

BusInterrupt == WakeTimer < BusHorizon /\ ISR_TrisAllOutput
NextBus == BusInterrupt \/ ISR_PortAllLow \/ ISR_TrisRow \/ ISR_PortRow \/ ISR_Advance
           \/ CallSetLEDOn \/ CallSetLEDOff \/ CallSetAllLEDsOff
SpecBus == Boot /\ [][NextBus]_vars

Row(k) == <<TRISTable[k + 1], PORTTable[k + 1]>>
SlotLED(k) == Energized(TRISTable[k + 1], PORTTable[k + 1])

\* C7: after each write of TRISA or PORTA inside one invocation of
\* TMR0_Callback the bus energizes no LED other than the LED of the slot that
\* invocation services.
C7_OnlyServicedLED ==
  isr # "idle" => Energized(TRISA, PORTA) \subseteq SlotLED(LEDState)

\* C8: every table row makes exactly two of the bus pins RA0, RA1, RA4, RA5
\* outputs, one driven high and one low, and leaves the other two inputs; the
\* eight rows differ pairwise; so a row, once written by the handler, energizes
\* exactly one LED, and the eight slots energize eight different LEDs.
C8_TableShape ==
  /\ \A k \in 0..7 :
       /\ Cardinality({p \in BusPins : IsOutput(TRISTable[k + 1], p)}) = 2
       /\ Cardinality({p \in BusPins : DrivenHigh(TRISTable[k + 1], PORTTable[k + 1], p)}) = 1
       /\ Cardinality({p \in BusPins : DrivenLow(TRISTable[k + 1], PORTTable[k + 1], p)}) = 1
       /\ And8(PORTTable[k + 1], TRISTable[k + 1]) = 0
       /\ Cardinality(SlotLED(k)) = 1
  /\ \A j, k \in 0..7 : j # k => (Row(j) # Row(k) /\ SlotLED(j) # SlotLED(k))
C27_SlotLightsNamedLED ==
  (isr = "advance" /\ SlotIsOn)
    => Energized(TRISA, PORTA) = {<<"D3", "D4", "D1", "D2", "D8", "D7", "D6", "D5">>[LEDState + 1]}
---------------------------------------------------------------------------
(* SpecSleep: the first SleepHorizon ms of every wake session, from boot *)

SleepTick == WakeTimer < SleepHorizon /\ TMR0_Callback
\* The buttons move while the chip sleeps or as the grace period runs out.
LateEdge == pc = "Sleeping" \/ (pc = "SpinCheck" /\ ShutdownDelayTimer <= GraceWindow)
LateLeftButtonEdge == LateEdge /\ LeftButtonEdge
LateRightButtonEdge == LateEdge /\ RightButtonEdge
NextSleep ==
  MainStep \/ Sleep \/ Woken \/ SleepTick \/ LateLeftButtonEdge \/ LateRightButtonEdge
SpecSleep == Boot /\ [][NextSleep]_vars

\* C4: when the CheckForButtonPushes of the grace spin has returned true,
\* SLEEP() is not executed in that pass of the main loop.
C4_PressAbortsSleep == ~(pc = "Sleeping" /\ ButtonSeen)

InGrace == pc \in {"SpinRead", "SpinCheck", "Test", "Sleep"}
GraceLeft == IF WakeTimer - armTime >= SHUTDOWN_DELAY_MS THEN 0
             ELSE SHUTDOWN_DELAY_MS - (WakeTimer - armTime)

\* C5: idle (no pattern active, both debounce timers 0), the main loop turns
\* the LEDs off and arms ShutdownDelayTimer with SHUTDOWN_DELAY_MS; the timer
\* then counts the 1 ms epochs since arming; while no sample sees a button down
\* the spin goes on as long as the timer is not 0, and when it is 0 the next
\* steps are the test and SLEEP(), which is executed only with the timer at 0,
\* that is 100 epochs or more after arming.
C5_SleepAfterGrace ==
  [][ /\ (pc = "Policy" /\ pc' # pc /\ Idle) => (pc' = "Settle" /\ LEDOns' = 0)
      /\ (pc = "Settle" /\ pc' # pc)
           => (pc' = "SpinRead" /\ ShutdownDelayTimer' = SHUTDOWN_DELAY_MS)
      /\ InGrace => ShutdownDelayTimer = GraceLeft
      /\ (pc = "SpinRead" /\ pc' # pc)
           => pc' = IF ShutdownDelayTimer = 0 THEN "Test" ELSE "SpinCheck"
      /\ (pc = "SpinCheck" /\ pc' # pc /\ ~CheckReturn) => pc' = "SpinRead"
      /\ (pc = "Test" /\ pc' # pc /\ ShutdownDelayTimer = 0) => pc' = "Sleep"
      /\ (pc = "Sleep" /\ pc' # pc) => pc' = "Sleeping"
      /\ (pc' = "Sleeping" /\ pc # "Sleeping")
           => /\ ShutdownDelayTimer = 0
              /\ WakeTimer - armTime >= SHUTDOWN_DELAY_MS ]_vars
C5_AsleepAfter100 ==
  /\ pc = "Sleeping" /\ edges = 0 /\ ~ButtonSeen
  /\ ShutdownDelayTimer = 0
  /\ WakeTimer = armTime + SHUTDOWN_DELAY_MS

---------------------------------------------------------------------------
(* SpecSession: a wake session with one right press, the sleep that follows  *)
(* it, and the first DebounceHorizon ms of the next wake session             *)

\* The first session lasts until a button moves on its own account.
FirstSession == edges = 0 /\ pc # "Sleeping"
\* The first session's press: down at the first sample, up once it is stamped.
ScriptDue ==
  /\ FirstSession
  /\ pc \in {"Check", "SpinCheck"} /\ isr = "idle"
  /\ \/ stamp = "none" /\ RA3 = 1
     \/ stamp = "current" /\ RA3 = 0
ScriptedRightEdge ==
  /\ ScriptDue
  /\ RA3' = 1 - RA3
  /\ UNCHANGED <<envFrame, RA2, pc, lag, edges>>
\* The first session runs one handler invocation, then one main-loop step.
TickDue == lag < MaxLag \/ MainWaits
FirstTick == FirstSession /\ ~ScriptDue /\ TickDue /\ TMR0_Callback
FirstStep == FirstSession /\ ~ScriptDue /\ ~TickDue /\ (MainStep \/ Sleep)
\* After it the buttons, the handler and the main loop run freely.
SessionTick == ~FirstSession /\ WakeTimer < DebounceHorizon /\ TMR0_Callback
SessionStep == ~FirstSession /\ (MainStep \/ Woken)
NextWakeLeftEdge == ~FirstSession /\ LeftButtonEdge
NextWakeRightEdge == ~FirstSession /\ RightButtonEdge
NextSession ==
  \/ ScriptedRightEdge \/ FirstTick \/ FirstStep
  \/ SessionStep \/ SessionTick \/ NextWakeLeftEdge \/ NextWakeRightEdge
SpecSession == Boot /\ [][NextSession]_vars

\* C6: a new right press is counted as a quick press (WakeTimer <
\* LastRightButtonPressTime + QUICK_PRESS_MS) only against a timestamp of this
\* wake session, never against one written before the last SLEEP().
C6_NoStaleTimestamp ==
  [][(CheckStep /\ NewRightPress /\ LeftButtonQuickPressCount' = LeftButtonQuickPressCount + 1)
       => stamp # "previous"]_vars

---------------------------------------------------------------------------
(* SpecHeld: power-up with the right button down and held, one handler      *)
(* invocation then one main-loop step in turn, up to the wake-time ceiling   *)

CeilingStart == MAX_AWAKE_TIME_MS - 2
BootHeld ==
  /\ TRISA = 63 /\ PORTA = 0
  /\ RA2 = 1 /\ RA3 = 0
  /\ LEDOns = 0 /\ LEDState = 0
  /\ PatternDelay = [i \in 0..(NUMBER_OF_PATTERNS - 1) |-> 0]
  /\ PatternState = [i \in 0..(NUMBER_OF_PATTERNS - 1) |-> 0]
  /\ WakeTimer = 0 /\ ShutdownDelayTimer = 0
  /\ LeftDebounceTimer = 0 /\ RightDebounceTimer = 0
  /\ LeftButtonState = BUTTON_STATE_IDLE /\ RightButtonState = BUTTON_STATE_IDLE
  /\ LastRightButtonPressTime = 0
  /\ right_delay = SLOW_DELAY /\ left_delay = SLOW_DELAY
  /\ num_leds_lit = 1 /\ last_button_press_time = 0 /\ next_decrement_time = 0
  /\ LastLeftButtonState = FALSE /\ LastRightButtonState = FALSE
  /\ LeftButtonQuickPressCount = 0
  /\ pc = "RunRightFlash" /\ isr = "idle"
  /\ delayLeft = 0 /\ blink = 0 /\ ButtonSeen = FALSE
  /\ rd = <<>> /\ rdHeld = {} /\ lag = 0
  /\ edges = 0 /\ glitch = [L |-> "none", R |-> "none"] /\ armTime = 0 /\ stamp = "none"
HeldTick == TickDue /\ WakeTimer <= CeilingStart /\ TMR0_Callback
HeldStep == ~TickDue /\ MainStep
NextHeld == HeldTick \/ HeldStep
SpecHeld == BootHeld /\ [][NextHeld]_vars

\* The state of that run as the main loop comes to its test of WakeTimer, 2 ms
\* before the ceiling: the right flash pattern has been cycling all the time.
NearCeiling ==
  /\ TRISA = 252 /\ PORTA = 2
  /\ RA2 = 1 /\ RA3 = 0
  /\ LEDOns = 15 /\ LEDState = 2
  /\ PatternDelay = [i \in 0..(NUMBER_OF_PATTERNS - 1) |->
                       IF i = PATTERN_RIGHT_FLASH THEN 23 ELSE 0]
  /\ PatternState = [i \in 0..(NUMBER_OF_PATTERNS - 1) |->
                       IF i = PATTERN_RIGHT_FLASH THEN 9 ELSE 0]
  /\ WakeTimer = CeilingStart /\ ShutdownDelayTimer = 0
  /\ LeftDebounceTimer = 0 /\ RightDebounceTimer = 0
  /\ LeftButtonState = BUTTON_STATE_RELEASED /\ RightButtonState = BUTTON_STATE_PRESSED
  /\ LastRightButtonPressTime = 30
  /\ right_delay = 225 /\ left_delay = SLOW_DELAY
  /\ num_leds_lit = 1 /\ last_button_press_time = 0 /\ next_decrement_time = 0
  /\ LastLeftButtonState = FALSE /\ LastRightButtonState = TRUE
  /\ LeftButtonQuickPressCount = 0
  /\ pc = "Policy" /\ isr = "idle"
  /\ delayLeft = 0 /\ blink = 0 /\ ButtonSeen = TRUE
  /\ rd = <<>> /\ rdHeld = {} /\ lag = 0
  /\ edges = 0 /\ glitch = [L |-> "none", R |-> "none"] /\ armTime = 30 /\ stamp = "current"
\* SpecHeld passes through NearCeiling (an invariant of SpecHeld).
HeldRunPassesNearCeiling ==
  (WakeTimer = CeilingStart /\ pc = "Policy" /\ LEDState = 2 /\ lag = 0) => NearCeiling

---------------------------------------------------------------------------
(* SpecCeiling: from NearCeiling on, every interleaving; the right button   *)
(* is let go at once, or it stays down; a press wakes the chip again         *)

CeilingTick == WakeTimer >= CeilingStart /\ WakeTimer < WakeCap /\ TMR0_Callback
CeilingRightEdge ==
  /\ (RA3 = 0 /\ WakeTimer = CeilingStart) \/ pc = "Sleeping"
  /\ RightButtonEdge
NextCeiling == MainStep \/ Sleep \/ Woken \/ CeilingTick \/ CeilingRightEdge
SpecCeiling == NearCeiling /\ [][NextCeiling]_vars

\* C3: once WakeTimer exceeds MAX_AWAKE_TIME_MS the main loop executes SLEEP(),
\* whatever the patterns and the buttons do: the chip is not awake any more
\* once the settle delay, the grace period and the slack of a pass have gone by
\* (SLEEP() stops the wake clock and the wake sets it to 0).
C3_CeilingForcesSleep ==
  WakeTimer < MAX_AWAKE_TIME_MS + LED_SETTLE_MS + SHUTDOWN_DELAY_MS + PassSlack


\* C30: whenever SLEEP() is executed no invocation of TMR0_Callback is under
\* way, LEDOns is 0 and the bus is as the handler's all-off writes leave it
\* (TRISA = 0xCC, PORTA = 0x00), and it stays so while the chip sleeps.
C30_DarkWhenAsleep ==
  pc \in {"Sleep", "Sleeping"}
    => /\ LEDOns = 0 /\ isr = "idle"
       /\ TRISA = TRISA_LEDS_ALL_OUTUPT /\ PORTA = PORTA_LEDS_ALL_LOW
C30_AsleepAtCeiling ==
  /\ pc = "Sleeping" /\ WakeTimer > MAX_AWAKE_TIME_MS
  /\ PatternState[PATTERN_RIGHT_FLASH] # 0 /\ LEDOns = 0

\* C23: after the wake that follows a sleep forced by the wake-time ceiling,
\* every entry of PatternState is 0 until a new press starts a pattern (in
\* SpecCeiling only the right button moves, and its next press stamps anew).
C23_WakeStartsInactive ==
  stamp = "previous" => ~APatternIsRunning
---------------------------------------------------------------------------
(* SpecBytes: a session with one right press (its pattern keeps the chip     *)
(* awake); from BytesStart ms on, every interleaving, with the main loop's   *)
(* read of the 32-bit WakeTimer done one byte at a time                      *)

\* The weight of byte k of a little-endian word.
RECURSIVE Pow256(_)
Pow256(k) == IF k = 0 THEN 1 ELSE 256 * Pow256(k - 1)
Byte(v, k) == (v \div Pow256(k)) % 256
\* The bytes are read in the order of their addresses, upwards or downwards.
NextByte == IF rd = <<>> THEN {0, 3}
            ELSE IF rd[1].k = 0 THEN {Len(rd)} ELSE {3 - Len(rd)}
RECURSIVE Assemble(_)
Assemble(bytes) == IF bytes = <<>> THEN 0
                   ELSE Head(bytes).b * Pow256(Head(bytes).k) + Assemble(Tail(bytes))
\* One byte of WakeTimer read for the test (WakeTimer > MAX_AWAKE_TIME_MS).
PolicyReadByte ==
  /\ pc = "Policy" /\ Running
  /\ Len(rd) < 4
  /\ \E k \in NextByte : rd' = Append(rd, [k |-> k, b |-> Byte(WakeTimer, k)])
  /\ rdHeld' = IF rd = <<>> THEN {WakeTimer} ELSE rdHeld
  /\ UNCHANGED <<progVars, RA2, RA3, pc, isr, delayLeft, blink, ButtonSeen, ghostVars>>
\* The test, on the four bytes read.
PolicyBytes ==
  /\ Len(rd) = 4
  /\ PolicyOn(Assemble(rd))
  /\ rd' = <<>> /\ rdHeld' = {}

BytesEarly == WakeTimer < BytesStart
BytesEarlyTick == BytesEarly /\ FirstTick
BytesEarlyStep == BytesEarly /\ FirstStep
BytesTick == ~BytesEarly /\ WakeTimer < BytesHorizon /\ TMR0_Callback
BytesStep == ~BytesEarly /\ LoopStep
BytesRead == ~BytesEarly /\ PolicyReadByte
BytesTest == ~BytesEarly /\ PolicyBytes
NextBytes ==
  \/ ScriptedRightEdge \/ BytesEarlyTick \/ BytesEarlyStep
  \/ BytesTick \/ BytesStep \/ BytesRead \/ BytesTest
SpecBytes == Boot /\ [][NextBytes]_vars

\* C10: the value the main loop has read from WakeTimer, byte by byte with
\* the handler free to run in between, is a value WakeTimer held at some
\* instant of the read.
C10_ReadsAreWhole == Len(rd) = 4 => Assemble(rd) \in rdHeld

---------------------------------------------------------------------------
(* SpecFlash: one button goes down at the first sample after power-up and   *)
(* is held, or let go during a stage of its flash pattern; the handler and  *)
(* the main loop alternate                                                  *)

FlashSides == {PATTERN_RIGHT_FLASH, PATTERN_LEFT_FLASH}
SideDelay(p) == IF p = PATTERN_RIGHT_FLASH THEN right_delay ELSE left_delay
SidePressed(p) == IF p = PATTERN_RIGHT_FLASH THEN RightButtonPressed ELSE LeftButtonPressed
SideRaw(p) == IF p = PATTERN_RIGHT_FLASH THEN RightButtonPressedRaw ELSE LeftButtonPressedRaw
\* The side's four LED masks, which have no bit in common.
SideLEDs(p) ==
  IF p = PATTERN_RIGHT_FLASH
  THEN LED_R_RED + LED_R_GREEN + LED_R_BLUE + LED_R_YELLOW
  ELSE LED_L_RED + LED_L_GREEN + LED_L_BLUE + LED_L_YELLOW

\* The press: at the first sample of the pins.
FlashPressDue == edges = 0 /\ pc \in {"Check", "SpinCheck"} /\ isr = "idle"
FlashRightPress ==
  /\ FlashPressDue
  /\ RA3' = 0 /\ edges' = 1
  /\ UNCHANGED <<envFrame, RA2, pc, lag>>
FlashLeftPress ==
  /\ FlashPressDue
  /\ RA2' = 0 /\ edges' = 1
  /\ UNCHANGED <<envFrame, RA3, pc, lag>>
\* The release: at a sample, ReleaseAt ms before the end of a stage.
FlashReleaseDue(p) ==
  /\ edges = 1 /\ pc = "Check" /\ isr = "idle"
  /\ SideRaw(p) /\ PatternDelay[p] = ReleaseAt /\ SideDelay(p) >= ReleaseAbove
FlashRightRelease ==
  /\ FlashReleaseDue(PATTERN_RIGHT_FLASH)
  /\ RA3' = 1 /\ edges' = 2
  /\ UNCHANGED <<envFrame, RA2, pc, lag>>
FlashLeftRelease ==
  /\ FlashReleaseDue(PATTERN_LEFT_FLASH)
  /\ RA2' = 1 /\ edges' = 2
  /\ UNCHANGED <<envFrame, RA3, pc, lag>>
FlashTick ==
  /\ ~FlashPressDue /\ TickDue
  /\ edges = 2 \/ WakeTimer < FlashHorizon
  /\ TMR0_Callback
FlashStep == ~FlashPressDue /\ ~TickDue /\ (MainStep \/ Sleep)
NextFlash ==
  \/ FlashRightPress \/ FlashLeftPress \/ FlashRightRelease \/ FlashLeftRelease
  \/ FlashTick \/ FlashStep
SpecFlash == Boot /\ [][NextFlash]_vars

\* SpecTap: the first round of SpecFlash, with a processor that never stops
\* executing while the handler or the main loop can run.
TapTick ==
  /\ ~FlashPressDue /\ TickDue
  /\ edges = 2 \/ WakeTimer < TapHorizon
  /\ TMR0_Callback
NextTap ==
  \/ FlashRightPress \/ FlashLeftPress \/ FlashRightRelease \/ FlashLeftRelease
  \/ TapTick \/ FlashStep
SpecTap == Boot /\ [][NextTap]_vars /\ WF_vars(NextTap)

\* The side's button has been let go (and stays up) in the first round of its pattern.
ReleasedEarly(p) ==
  /\ edges = 2 /\ ~SideRaw(p) /\ ~SidePressed(p)
  /\ PatternState[p] \in 1..7 /\ SideDelay(p) = SLOW_DELAY
FlashOver(p) == PatternState[p] = 0 /\ And8(LEDOns, SideLEDs(p)) = 0
\* One step of a pattern that was started by a press and is on its way out.
TapStep(p) ==
  /\ (~SidePressed(p) /\ SidePressed(p)') => PatternState'[p] = 1
  /\ ReleasedEarly(p)
       => \/ PatternState'[p] = PatternState[p]
          \/ PatternState[p] < 7 /\ PatternState'[p] = PatternState[p] + 1
          \/ PatternState[p] = 7 /\ PatternState'[p] = 10
  /\ (PatternState[p] # 0 /\ PatternState'[p] = 0)
       => (PatternState[p] = 10 /\ FlashOver(p)')
  /\ PatternState'[p] = 0 => FlashOver(p)'

\* C13: the call that commits a press sets the side's PatternState to 1; with
\* the button let go before the first state-7 decision the pattern steps
\* 1, 2, .. 7, 10 and from 10 to 0, which it eventually reaches; whenever the
\* pattern is at 0 the four LED bits of its side in LEDOns are 0.
C13_TapRunsToTenThenOff ==
  /\ [][TapStep(PATTERN_RIGHT_FLASH) /\ TapStep(PATTERN_LEFT_FLASH)]_vars
  /\ ReleasedEarly(PATTERN_RIGHT_FLASH) ~> FlashOver(PATTERN_RIGHT_FLASH)
  /\ ReleasedEarly(PATTERN_LEFT_FLASH) ~> FlashOver(PATTERN_LEFT_FLASH)
C13_OffAfterTap ==
  /\ edges = 2 /\ LeftButtonState = BUTTON_STATE_RELEASED
  /\ left_delay = SLOW_DELAY /\ LEDOns = 0
  /\ PatternState[PATTERN_LEFT_FLASH] = 0 /\ PatternDelay[PATTERN_LEFT_FLASH] = 0
  /\ WakeTimer > 7 * SLOW_DELAY /\ WakeTimer < 8 * SLOW_DELAY

\* The state-7 decision of side p, taken with the button pressed.
DecisionStep(p) == PatternState[p] = 7 /\ PatternState'[p] # 7 /\ SidePressed(p)

\* C14: with the button pressed, a state-7 decision taken with delay d > 3
\* makes the delay floor(d*80/100), which is less than d and at least 3, with
\* d*80 below 2^16, and goes back to state 2; the decision taken with d <= 3
\* goes to state 8 with the delay back at 250. A pattern starts (state 1) with
\* the delay at 250, and the delay is never below 3.
C14_AccelerateThenShimmer ==
  [][ \A p \in FlashSides :
        /\ DecisionStep(p)
             => IF SideDelay(p) > 3
                THEN /\ SideDelay(p)' = (SideDelay(p) * 80) \div 100
                     /\ SideDelay(p)' < SideDelay(p) /\ SideDelay(p)' >= 3
                     /\ SideDelay(p) * 80 < 65536
                     /\ PatternState'[p] = 2 /\ PatternDelay'[p] = SideDelay(p)'
                ELSE /\ PatternState'[p] = 8
                     /\ SideDelay(p)' = SLOW_DELAY /\ PatternDelay'[p] = SLOW_DELAY
        /\ PatternState'[p] = 1 => SideDelay(p)' = SLOW_DELAY
        /\ SideDelay(p)' >= 3 ]_vars
C14_ShimmerAfterFastest ==
  /\ PatternState[PATTERN_RIGHT_FLASH] = 8 /\ right_delay = SLOW_DELAY
  /\ PatternDelay[PATTERN_RIGHT_FLASH] = SLOW_DELAY
  /\ RightButtonPressed /\ edges = 1 /\ WakeTimer > 6 * 1200

\* The state-9 decision of side p, taken with the button pressed.
ShimmerStep(p) == PatternState[p] = 9 /\ PatternState'[p] # 9 /\ SidePressed(p)
\* A call of side p's engine with the delay run out, the pattern active and
\* the button pressed.
HeldEngineStep(p) ==
  /\ pc = (IF p = PATTERN_RIGHT_FLASH THEN "RunRightFlash" ELSE "RunLeftFlash") /\ pc' # pc
  /\ PatternDelay[p] = 0 /\ PatternState[p] \in 1..9 /\ SidePressed(p)

\* C28: with the button pressed, a state-9 decision taken with delay d > 10
\* makes the delay floor(d*95/100), which is less than d and at least 10, with
\* d*95 below 2^16, and goes back to state 8; the decision taken with d <= 10
\* goes to state 1 with the delay back at 250; in states 8 and 9 the delay is
\* never below 10. Every call of the engine with the button pressed and the
\* delay run out takes the pattern to another state in 1..9 and starts a delay
\* of at most 250 ms, so the held pattern sticks in no state.
C28_ShimmerThenMarch ==
  [][ \A p \in FlashSides :
        /\ ShimmerStep(p)
             => IF SideDelay(p) > 10
                THEN /\ SideDelay(p)' = (SideDelay(p) * 95) \div 100
                     /\ SideDelay(p)' < SideDelay(p) /\ SideDelay(p)' >= 10
                     /\ SideDelay(p) * 95 < 65536
                     /\ PatternState'[p] = 8 /\ PatternDelay'[p] = SideDelay(p)'
                ELSE /\ PatternState'[p] = 1
                     /\ SideDelay(p)' = SLOW_DELAY /\ PatternDelay'[p] = SLOW_DELAY
        /\ PatternState'[p] \in {8, 9} => SideDelay(p)' \in 10..SLOW_DELAY
        /\ HeldEngineStep(p)
             => /\ PatternState'[p] \in 1..9 /\ PatternState'[p] # PatternState[p]
                /\ PatternDelay'[p] = SideDelay(p)' /\ PatternDelay'[p] \in 3..SLOW_DELAY ]_vars
C28_MarchAfterShimmer ==
  /\ PatternState[PATTERN_LEFT_FLASH] = 1 /\ left_delay = SLOW_DELAY
  /\ PatternDelay[PATTERN_LEFT_FLASH] = SLOW_DELAY
  /\ LeftButtonPressed /\ edges = 1 /\ WakeTimer > 15000

\* SpecRelease: the first round of SpecFlash and, from the state the held
\* run is in 1 ms before the last state-7 decision, the shimmer that follows;
\* the processor never stops executing while the handler or the main loop can run.
NearShimmer(p) ==
  /\ TRISA = TRISA_LEDS_ALL_OUTUPT /\ PORTA = PORTA_LEDS_ALL_LOW
  /\ RA3 = (IF p = PATTERN_RIGHT_FLASH THEN 0 ELSE 1)
  /\ RA2 = (IF p = PATTERN_LEFT_FLASH THEN 0 ELSE 1)
  /\ LEDOns = (IF p = PATTERN_RIGHT_FLASH THEN LED_R_GREEN ELSE LED_L_GREEN)
  /\ LEDState = 0
  /\ PatternDelay = [i \in 0..(NUMBER_OF_PATTERNS - 1) |-> IF i = p THEN 1 ELSE 0]
  /\ PatternState = [i \in 0..(NUMBER_OF_PATTERNS - 1) |-> IF i = p THEN 7 ELSE 0]
  /\ WakeTimer = 7284 /\ ShutdownDelayTimer = 0
  /\ LeftDebounceTimer = 0 /\ RightDebounceTimer = 0
  /\ RightButtonState = (IF p = PATTERN_RIGHT_FLASH THEN BUTTON_STATE_PRESSED
                                                    ELSE BUTTON_STATE_RELEASED)
  /\ LeftButtonState = (IF p = PATTERN_LEFT_FLASH THEN BUTTON_STATE_PRESSED
                                                  ELSE BUTTON_STATE_RELEASED)
  /\ LastRightButtonPressTime = (IF p = PATTERN_RIGHT_FLASH THEN 30 ELSE 0)
  /\ right_delay = (IF p = PATTERN_RIGHT_FLASH THEN 3 ELSE SLOW_DELAY)
  /\ left_delay = (IF p = PATTERN_LEFT_FLASH THEN 3 ELSE SLOW_DELAY)
  /\ num_leds_lit = 1 /\ last_button_press_time = 0 /\ next_decrement_time = 0
  /\ LastRightButtonState = (p = PATTERN_RIGHT_FLASH)
  /\ LastLeftButtonState = (p = PATTERN_LEFT_FLASH)
  /\ LeftButtonQuickPressCount = 0
  /\ pc = "Check" /\ isr = "idle"
  /\ delayLeft = 0 /\ blink = 0 /\ ButtonSeen = TRUE
  /\ rd = <<>> /\ rdHeld = {} /\ lag = 0
  /\ edges = 1 /\ glitch = [L |-> "none", R |-> "none"] /\ armTime = 30
  /\ stamp = (IF p = PATTERN_RIGHT_FLASH THEN "current" ELSE "none")
\* Under SpecFlash the held run is in NearShimmer at that moment.
HeldRunPassesNearShimmer ==
  \A p \in FlashSides :
    (edges = 1 /\ SideRaw(p) /\ WakeTimer = 7284 /\ LEDState = 0 /\ pc = "Check" /\ lag = 0)
      => NearShimmer(p)
InShimmer == \E p \in FlashSides : SideDelay(p) <= 3 \/ PatternState[p] \in {8, 9}
ReleaseTick ==
  /\ ~FlashPressDue /\ TickDue
  /\ \/ edges = 2
     \/ WakeTimer < TapHorizon
     \/ InShimmer /\ WakeTimer < ReleaseHorizon
  /\ TMR0_Callback
NextRelease ==
  \/ FlashRightPress \/ FlashLeftPress \/ FlashRightRelease \/ FlashLeftRelease
  \/ ReleaseTick \/ FlashStep
SpecRelease ==
  /\ Boot \/ NearShimmer(PATTERN_RIGHT_FLASH) \/ NearShimmer(PATTERN_LEFT_FLASH)
  /\ [][NextRelease]_vars /\ WF_vars(NextRelease)

\* The side's button is up for good while its pattern is active in a state 1..9.
ReleasedActive(p) ==
  /\ edges = 2 /\ ~SideRaw(p) /\ ~SidePressed(p)
  /\ PatternState[p] \in 1..9

\* C15: with the button released for good and the pattern in a state 1..9,
\* the pattern only marches forward (s to s+1, and 7 to 10) with its delay
\* unchanged, so it takes none of the jumps back (7 to 2, 7 to 8, 9 to 8,
\* 9 to 1); it eventually is in state 10, and from state 10 eventually in 0.
C15_ReleaseEndsPattern ==
  /\ [][ \A p \in FlashSides :
           ReleasedActive(p)
             => /\ \/ PatternState'[p] = PatternState[p]
                   \/ PatternState[p] # 7 /\ PatternState'[p] = PatternState[p] + 1
                   \/ PatternState[p] = 7 /\ PatternState'[p] = 10
                /\ SideDelay(p)' = SideDelay(p) ]_vars
  /\ \A p \in FlashSides : ReleasedActive(p) ~> (PatternState[p] = 10)
  /\ \A p \in FlashSides : (PatternState[p] = 10) ~> (PatternState[p] = 0)
C15_ReleasedInShimmer ==
  /\ edges = 2 /\ LeftButtonState = BUTTON_STATE_RELEASED
  /\ PatternState[PATTERN_LEFT_FLASH] = 10 /\ WakeTimer > 6 * 1200 + 2 * SLOW_DELAY

---------------------------------------------------------------------------
(* SpecGesture: taps on the right button (each let go as soon as it is      *)
(* committed, the next begun at once or about QUICK_PRESS_MS after the last *)
(* one), with the left button held from the first tap or not, and let go    *)
(* with one of the taps or not; the handler and the main loop alternate     *)

\* In the game the taps are the fastest ones, except the taps that follow
\* these values of LeftButtonQuickPressCount (the first and the fourth tap
\* of a game entered by four counted presses).
LateTaps == {5, 8}
\* The right button owes an edge: its first press, the release of a
\* committed press, or in the game the next press as soon as the release is committed.
TapForced ==
  /\ pc \in {"Check", "SpinCheck"} /\ isr = "idle"
  /\ \/ RA3 = 1 /\ RightButtonState = BUTTON_STATE_IDLE
     \/ RA3 = 0 /\ RightButtonState = BUTTON_STATE_PRESSED
     \/ /\ RA3 = 1 /\ RightButtonState = BUTTON_STATE_RELEASED
        /\ PatternState[PATTERN_RIGHT_GAME] # 0 /\ LeftButtonQuickPressCount \notin LateTaps
TapRightEdge ==
  /\ \/ TapForced
     \/ /\ pc = "Check" /\ isr = "idle"
        /\ RA3 = 1 /\ RightButtonState = BUTTON_STATE_RELEASED
        /\ WakeTimer <= LastRightButtonPressTime + FastWindow
  /\ RA3' = 1 - RA3
  /\ UNCHANGED <<envFrame, RA2, pc, lag, edges>>
\* A press about QUICK_PRESS_MS after the last one, or in the game about
\* GAME_PRESS_MS after it; edges = 2 from then on if the left button is held.
TapLateEdge ==
  /\ pc = "Check" /\ isr = "idle" /\ ~TapForced
  /\ RA3 = 1 /\ RightButtonState = BUTTON_STATE_RELEASED
  /\ \/ WakeTimer - LastRightButtonPressTime \in SlowFrom..SlowTo
     \/ /\ PatternState[PATTERN_RIGHT_GAME] # 0
        /\ WakeTimer - LastRightButtonPressTime \in MediumFrom..MediumTo
  /\ RA3' = 0 /\ edges' = (IF edges = 1 THEN 2 ELSE edges)
  /\ UNCHANGED <<envFrame, RA2, pc, lag>>
TapLeftPress ==
  /\ TapForced /\ RightButtonState = BUTTON_STATE_IDLE /\ RA2 = 1 /\ edges = 0
  /\ RA2' = 0 /\ edges' = 1
  /\ UNCHANGED <<envFrame, RA3, pc, lag>>
TapLeftRelease ==
  /\ TapForced /\ RightButtonState = BUTTON_STATE_PRESSED /\ RA2 = 0 /\ edges = 1
  /\ RA2' = 1 /\ edges' = 2
  /\ UNCHANGED <<envFrame, RA3, pc, lag>>
GestureTick ==
  /\ ~TapForced /\ TickDue
  /\ WakeTimer < GestureHorizon
  /\ TMR0_Callback
GestureStep == ~TapForced /\ ~TickDue /\ MainStep
NextGesture ==
  \/ TapRightEdge \/ TapLateEdge \/ TapLeftPress \/ TapLeftRelease
  \/ GestureTick \/ GestureStep
SpecGesture == Boot /\ [][NextGesture]_vars

\* C16: LeftButtonQuickPressCount goes up (by one) in exactly the calls of
\* CheckForButtonPushes that commit a new right press with the left button
\* logically pressed and WakeTimer < LastRightButtonPressTime + 250; the call
\* that takes it to 4 leaves both flash patterns at PatternState 0 and the
\* game pattern at 1.
C16_QuickPressCounted ==
  [][ LET counted == /\ NewRightPress /\ LeftButtonState' = BUTTON_STATE_PRESSED
                     /\ WakeTimer < LastRightButtonPressTime + QUICK_PRESS_MS
      IN /\ counted => LeftButtonQuickPressCount' = LeftButtonQuickPressCount + 1
         /\ ~counted => LeftButtonQuickPressCount' \in {LeftButtonQuickPressCount, 0}
         /\ (counted /\ LeftButtonQuickPressCount' = 4)
              => /\ PatternState'[PATTERN_RIGHT_FLASH] = 0
                 /\ PatternState'[PATTERN_LEFT_FLASH] = 0
                 /\ PatternState'[PATTERN_RIGHT_GAME] = 1 ]_vars
C16_GameEnteredOnFourth ==
  /\ LeftButtonQuickPressCount = 4 /\ pc = "RunRightFlash"
  /\ LastRightButtonPressTime = WakeTimer
  /\ PatternState[PATTERN_RIGHT_FLASH] = 0 /\ PatternState[PATTERN_LEFT_FLASH] = 0
  /\ PatternState[PATTERN_RIGHT_GAME] = 1

\* C17: a new right press more than 250 ms after the previous right-press
\* timestamp leaves LeftButtonQuickPressCount at 0, whatever the left button.
C17_SlowPressResets ==
  [][ (NewRightPress /\ WakeTimer > LastRightButtonPressTime + QUICK_PRESS_MS)
        => LeftButtonQuickPressCount' = 0 ]_vars

---------------------------------------------------------------------------
(* SpecGame: the taps of SpecGesture with the left button held; the run is  *)
(* followed on once the game has been entered, to GameHorizon with the      *)
(* fastest taps and to LateBy after one that was late                       *)

GameTick ==
  /\ ~TapForced /\ TickDue
  /\ WakeTimer < (IF PatternState[PATTERN_RIGHT_GAME] = 0 THEN EntryBy
                  ELSE IF edges = 1 THEN GameHorizon ELSE LateBy)
  /\ TMR0_Callback
GameStep == ~TapForced /\ ~TickDue /\ (MainStep \/ Celebrate)
NextGame == TapRightEdge \/ TapLateEdge \/ TapLeftPress \/ GameTick \/ GameStep
SpecGame == Boot /\ [][NextGame]_vars


\* A pass of RunGame with the game active, up to its return or to the first
\* __delay_ms of the win celebration; the press block counts the press.
GamePass == pc = "RunGame" /\ pc' # "RunGame" /\ GameActive
GameCounts ==
  /\ LastRightButtonPressTime # last_button_press_time
  /\ LastRightButtonPressTime - last_button_press_time < GAME_PRESS_MS

\* C18: num_leds_lit is in 0..8 after every pass of RunGame; the pass whose
\* increment would make it 9 sets it to 0 and turns all LEDs on, then LEDOns
\* alternates 0 and 255 after a busy delay of 100 ms each, ten delays in all,
\* and the pass ends with LEDOns = 0 and num_leds_lit = 0.
C18_BarWithinEightOrWin ==
  [][ /\ num_leds_lit' \in 0..8
      /\ (GamePass /\ GameCounts /\ num_leds_lit = 8)
           => /\ num_leds_lit' = 0 /\ LEDOns' = 255 /\ blink' = 1 /\ pc' = "Celebrate"
              /\ delayLeft' = WIN_BLINK_MS * TICKS_PER_MS
      /\ pc' = "Celebrate" => pc \in {"RunGame", "Celebrate"}
      /\ (pc = "RunGame" /\ pc' = "Celebrate") => (GameCounts /\ num_leds_lit = 8)
      /\ (pc = "Celebrate" /\ blink' # blink /\ pc' = "Celebrate")
           => /\ delayLeft = 0 /\ delayLeft' = WIN_BLINK_MS * TICKS_PER_MS
              /\ blink' = blink + 1 /\ blink' <= 10
              /\ LEDOns' = (IF blink' % 2 = 1 THEN 255 ELSE 0)
      /\ (pc = "Celebrate" /\ pc' # "Celebrate")
           => /\ blink = 10 /\ delayLeft = 0
              /\ LEDOns = 0 /\ LEDOns' = 0 /\ num_leds_lit' = 0
              /\ WakeTimer >= LastRightButtonPressTime + 10 * WIN_BLINK_MS ]_vars
C18_CelebrationOver ==
  /\ pc = "Policy" /\ blink = 0 /\ num_leds_lit = 0 /\ LEDOns = 0
  /\ PatternState[PATTERN_RIGHT_GAME] = 1
  /\ last_button_press_time = LastRightButtonPressTime
  /\ WakeTimer >= LastRightButtonPressTime + 10 * WIN_BLINK_MS

C29_BarShowsCount ==
  [][ GamePass => LEDOns' = Pow2(num_leds_lit) - 1 ]_vars

\* C20: when RunGame has recorded the fifth press after the four counted
\* presses that entered the game, every press having been the fastest one
\* (about 40 ms after the one before), num_leds_lit is 6.
C20_FiveTapsMakeSix ==
  (/\ pc = "Policy" /\ edges = 1 /\ PatternState[PATTERN_RIGHT_GAME] = 1
   /\ LeftButtonQuickPressCount = 9
   /\ last_button_press_time = LastRightButtonPressTime)
    => num_leds_lit = 6

---------------------------------------------------------------------------
(* SpecUpset: the first DebounceHorizon ms after boot with the buttons      *)
(* moving freely until, once, a flash pattern's state byte takes a value    *)
(* that no case of the engine's switch names                                *)

\* Values of the uint8_t outside the cases 0..10.
StrayStates == {11, 128, 255}
\* The upset; no button moves after it.
Upset ==
  /\ edges < MaxEdges /\ isr = "idle"
  /\ \E p \in FlashSides, s \in StrayStates :
       PatternState' = [PatternState EXCEPT ![p] = s]
  /\ edges' = MaxEdges + 1
  /\ UNCHANGED <<TRISA, PORTA, LEDOns, LEDState, PatternDelay, WakeTimer,
                 ShutdownDelayTimer, LeftDebounceTimer, RightDebounceTimer,
                 LeftButtonState, RightButtonState, LastRightButtonPressTime,
                 right_delay, left_delay, num_leds_lit, last_button_press_time,
                 next_decrement_time, LastLeftButtonState, LastRightButtonState,
                 LeftButtonQuickPressCount, RA2, RA3, pc, isr, delayLeft, blink,
                 ButtonSeen, rd, rdHeld, lag, glitch, armTime, stamp>>
SpecUpset == Boot /\ [][Next \/ Upset]_vars

\* A call of side p's engine with the delay run out and a stray state.
StrayStep(p) ==
  /\ pc = (IF p = PATTERN_RIGHT_FLASH THEN "RunRightFlash" ELSE "RunLeftFlash") /\ pc' # pc
  /\ PatternDelay[p] = 0 /\ PatternState[p] \notin 0..10

\* C22: a call of RunRightFlash/RunLeftFlash that finds its pattern's state
\* outside 0..10, with the pattern's delay at 0, sets that state to 0 and
\* leaves the other patterns' states, LEDOns, PatternDelay and both side delays
\* unchanged; the main loop goes on to its next call. Nothing else changes a
\* stray state but a call of CheckForButtonPushes (a new press, the gesture).
C22_StrayStateReset ==
  [][ \A p \in FlashSides :
        /\ StrayStep(p)
             => /\ PatternState' = [PatternState EXCEPT ![p] = 0]
                /\ UNCHANGED <<LEDOns, PatternDelay, right_delay, left_delay>>
                /\ pc' = (IF p = PATTERN_RIGHT_FLASH THEN "RunLeftFlash" ELSE "RunGame")
        /\ (PatternState[p] \notin 0..10 /\ PatternState'[p] # PatternState[p])
             => (StrayStep(p) \/ CheckStep) ]_vars
C22_StrayStateGone ==
  /\ edges = MaxEdges + 1 /\ pc = "RunLeftFlash"
  /\ ~APatternIsRunning /\ LEDOns = 0
  /\ right_delay = SLOW_DELAY /\ left_delay = SLOW_DELAY

---------------------------------------------------------------------------
(* SpecLoop: SpecTap followed, once the chip sleeps, by the press that      *)
(* wakes it and the first DebounceHorizon ms of the next wake session; the  *)
(* timer keeps ticking and the processor keeps executing                    *)

\* The press that ends SLEEP() (interrupt-on-change, pin_manager.c).
LoopWakeEdge ==
  /\ pc = "Sleeping" /\ edges = MaxEdges
  /\ \/ RA3' = 0 /\ RA2' = RA2
     \/ RA2' = 0 /\ RA3' = RA3
  /\ edges' = MaxEdges + 1 /\ pc' = "Woken"
  /\ UNCHANGED <<envFrame, lag>>
\* The handler and the main loop, in turn.
LoopRuns ==
  \/ edges <= MaxEdges /\ (TapTick \/ FlashStep)
  \/ /\ edges > MaxEdges /\ TickDue
     /\ pc = "Woken" \/ WakeTimer < DebounceHorizon
     /\ TMR0_Callback
  \/ edges > MaxEdges /\ ~TickDue /\ (MainStep \/ Woken)
NextLoop ==
  \/ FlashRightPress \/ FlashLeftPress \/ FlashRightRelease \/ FlashLeftRelease
  \/ LoopWakeEdge \/ LoopRuns
SpecLoop == Boot /\ [][NextLoop]_vars /\ WF_vars(LoopRuns)

\* C24: a busy delay is at most 100 ms long and every timer period takes one
\* period off it; the grace-period spin is left no later than 100 epochs
\* after ShutdownDelayTimer was armed; the main loop stands still only in
\* SLEEP(), which ends with a change of a button pin, after which the loop
\* runs again. With the buttons left alone every pass of the main loop comes
\* to its end: the pattern runs out, the settle delay and the spin end and the
\* chip reaches SLEEP().
C24_LoopNeverHalts ==
  /\ [][ /\ delayLeft' <= WIN_BLINK_MS * TICKS_PER_MS
         /\ (LEDState' # LEDState /\ delayLeft > 0) => delayLeft' = delayLeft - 1
         /\ pc' \in {"SpinRead", "SpinCheck"} => WakeTimer' - armTime' <= SHUTDOWN_DELAY_MS
         /\ (pc = "Sleeping" /\ pc' # "Sleeping")
              => /\ RA2' # RA2 \/ RA3' # RA3
                 /\ pc' = "Woken"
         /\ (pc = "Woken" /\ pc' # "Woken") => pc' = "Check" ]_vars
  /\ (edges = MaxEdges) ~> (pc = "Sleeping")
C24_RunningAfterWake ==
  /\ edges = MaxEdges + 1 /\ pc = "RunRightFlash" /\ stamp = "previous"
  /\ WakeTimer = BUTTON_DEBOUNCE_MS /\ LeftButtonState = BUTTON_STATE_PRESSED_TIMING

---------------------------------------------------------------------------
(* SpecRecount: the left button held while the right button is tapped three *)
(* times as fast as the debounce allows, both let go; the patterns run out, *)
(* the chip sleeps; one button or both together wake it, held down for the  *)
(* first DebounceHorizon ms of the next session                             *)

\* n taps of the right button with the left button held. edges: 0 before the
\* left press, 1 while the taps are made, 2 from the release of the left
\* button on, 3 from the wake on.
QuickTaps(n) ==
  /\ pc \in {"Check", "SpinCheck"} /\ isr = "idle"
  /\ \/ edges = 0 /\ RA2' = 0 /\ RA3' = RA3 /\ edges' = 1
     \/ /\ edges = 1 /\ LeftButtonQuickPressCount < n
        /\ \/ RA3 = 1 /\ RightButtonState \in {BUTTON_STATE_IDLE, BUTTON_STATE_RELEASED}
           \/ RA3 = 0 /\ RightButtonState = BUTTON_STATE_PRESSED
        /\ RA3' = 1 - RA3 /\ RA2' = RA2 /\ edges' = 1
     \/ edges = 1 /\ LeftButtonQuickPressCount = n /\ RA2' = 1 /\ RA3' = RA3 /\ edges' = 2
     \/ edges = 2 /\ RA3 = 0 /\ RA3' = 1 /\ RA2' = RA2 /\ edges' = 2
  /\ UNCHANGED <<envFrame, pc, lag>>
RecountEdge == QuickTaps(3)
RecountWake ==
  /\ pc = "Sleeping" /\ edges = 2
  /\ RA2' \in {0, 1} /\ RA3' \in {0, 1} /\ <<RA2', RA3'>> # <<RA2, RA3>>
  /\ edges' = 3 /\ pc' = "Woken"
  /\ UNCHANGED <<envFrame, lag>>
RecountTick ==
  /\ ~ENABLED RecountEdge /\ TickDue
  /\ edges < 3 \/ pc = "Woken" \/ WakeTimer < DebounceHorizon
  /\ TMR0_Callback
RecountStep == ~ENABLED RecountEdge /\ ~TickDue /\ (MainStep \/ Sleep \/ Woken)
NextRecount == RecountEdge \/ RecountWake \/ RecountTick \/ RecountStep
SpecRecount == Boot /\ [][NextRecount]_vars

\* C26: in the session after a wake, with the buttons held as they were at
\* the wake, the call of CheckForButtonPushes that commits a button as
\* pressed (20 ms of debounce after the wake) leaves that side's flash pattern
\* in state 1, and SLEEP() is not executed in that session before.
C26_HeldAtWakeStartsPattern ==
  [][ edges = 3
        => /\ (RA2 = 0 /\ LeftButtonState # BUTTON_STATE_PRESSED
                 /\ LeftButtonState' = BUTTON_STATE_PRESSED)
                => PatternState'[PATTERN_LEFT_FLASH] = 1
           /\ (RA3 = 0 /\ RightButtonState # BUTTON_STATE_PRESSED
                 /\ RightButtonState' = BUTTON_STATE_PRESSED)
                => PatternState'[PATTERN_RIGHT_FLASH] = 1
           /\ pc' # "Sleeping" ]_vars

---------------------------------------------------------------------------
(* SpecIdle: the game entered by four taps (QuickTaps) and then left alone  *)
(* until 2 ms before the wake-time ceiling; SpecRegame: from there on, the  *)
(* forced sleep, a press of the right button that wakes the chip and the    *)
(* first RegameHorizon ms of the next session; the handler and the main     *)
(* loop alternate                                                           *)

IdleEdge == QuickTaps(4)
IdleTick == ~ENABLED IdleEdge /\ TickDue /\ WakeTimer <= CeilingStart /\ TMR0_Callback
IdleStep == ~ENABLED IdleEdge /\ ~TickDue /\ MainStep
SpecIdle == Boot /\ [][IdleEdge \/ IdleTick \/ IdleStep]_vars

\* The state of that run as the main loop comes to its test of WakeTimer, 2 ms
\* before the ceiling: the game is active, the count has decayed to 0.
GameNearCeiling ==
  /\ TRISA = 204 /\ PORTA = 0
  /\ RA2 = 1 /\ RA3 = 1
  /\ LEDOns = 1 /\ LEDState = 2
  /\ PatternDelay = [i \in 0..(NUMBER_OF_PATTERNS - 1) |-> 0]
  /\ PatternState = [i \in 0..(NUMBER_OF_PATTERNS - 1) |->
                       IF i = PATTERN_RIGHT_GAME THEN 1 ELSE 0]
  /\ WakeTimer = CeilingStart /\ ShutdownDelayTimer = 0
  /\ LeftDebounceTimer = 0 /\ RightDebounceTimer = 0
  /\ LeftButtonState = BUTTON_STATE_RELEASED /\ RightButtonState = BUTTON_STATE_RELEASED
  /\ LastRightButtonPressTime = 151
  /\ right_delay = SLOW_DELAY /\ left_delay = SLOW_DELAY
  /\ num_leds_lit = 0 /\ last_button_press_time = 151 /\ next_decrement_time = 300093
  /\ LastLeftButtonState = FALSE /\ LastRightButtonState = FALSE
  /\ LeftButtonQuickPressCount = 4
  /\ pc = "Policy" /\ isr = "idle"
  /\ delayLeft = 0 /\ blink = 0 /\ ButtonSeen = TRUE
  /\ rd = <<>> /\ rdHeld = {} /\ lag = 0
  /\ edges = 2 /\ glitch = [L |-> "none", R |-> "none"] /\ armTime = 30 /\ stamp = "current"
\* SpecIdle passes through GameNearCeiling (an invariant of SpecIdle).
IdleGamePassesNearCeiling ==
  (WakeTimer = CeilingStart /\ pc = "Policy" /\ LEDState = 2 /\ lag = 0) => GameNearCeiling

RegameWake ==
  /\ pc = "Sleeping" /\ edges = 2
  /\ RA3' = 0 /\ edges' = 3 /\ pc' = "Woken"
  /\ UNCHANGED <<envFrame, RA2, lag>>
RegameTick ==
  /\ TickDue
  /\ IF edges = 3 THEN pc = "Woken" \/ WakeTimer < RegameHorizon ELSE WakeTimer < WakeCap
  /\ TMR0_Callback
RegameStep == ~TickDue /\ (MainStep \/ Sleep \/ Woken)
NextRegame == RegameWake \/ RegameTick \/ RegameStep
SpecRegame == GameNearCeiling /\ [][NextRegame]_vars

\* C21: while the game is active and the count is not 0, the next decrement
\* is due within GAME_DECREMENT_MS of wake time: next_decrement_time is at most
\* WakeTimer + GAME_DECREMENT_MS, in every wake session.
C21_CountDecaysInTime ==
  (PatternState[PATTERN_RIGHT_GAME] # 0 /\ num_leds_lit # 0)
    => next_decrement_time <= WakeTimer + GAME_DECREMENT_MS

---------------------------------------------------------------------------
\* C31: whenever the game pattern is active, both flash patterns are
\* inactive, also after further button presses made in game mode.
C31_GameExcludesFlash ==
  PatternState[PATTERN_RIGHT_GAME] # 0
    => /\ PatternState[PATTERN_RIGHT_FLASH] = 0
       /\ PatternState[PATTERN_LEFT_FLASH] = 0

---------------------------------------------------------------------------
\* C33: a call of RunRightFlash changes at most the bits 0x0F of LEDOns,
\* PatternState[0], PatternDelay[0] and right_delay; a call of RunLeftFlash at
\* most the bits 0xF0 of LEDOns, PatternState[1], PatternDelay[1] and
\* left_delay; everything else, the other side's LED bits and pattern record
\* included, is as before the call.
C33_FlashEnginesIndependent ==
  [][ /\ (pc = "RunRightFlash" /\ pc' # pc)
           => /\ And8(LEDOns', 240) = And8(LEDOns, 240)
              /\ \A i \in 1..(NUMBER_OF_PATTERNS - 1) :
                   PatternState'[i] = PatternState[i] /\ PatternDelay'[i] = PatternDelay[i]
              /\ UNCHANGED <<left_delay, num_leds_lit, last_button_press_time,
                             next_decrement_time, WakeTimer, ShutdownDelayTimer,
                             LeftDebounceTimer, RightDebounceTimer, LeftButtonState,
                             RightButtonState, LastRightButtonPressTime,
                             LastLeftButtonState, LastRightButtonState,
                             LeftButtonQuickPressCount, TRISA, PORTA, LEDState>>
      /\ (pc = "RunLeftFlash" /\ pc' # pc)
           => /\ And8(LEDOns', 15) = And8(LEDOns, 15)
              /\ \A i \in (0..(NUMBER_OF_PATTERNS - 1)) \ {1} :
                   PatternState'[i] = PatternState[i] /\ PatternDelay'[i] = PatternDelay[i]
              /\ UNCHANGED <<right_delay, num_leds_lit, last_button_press_time,
                             next_decrement_time, WakeTimer, ShutdownDelayTimer,
                             LeftDebounceTimer, RightDebounceTimer, LeftButtonState,
                             RightButtonState, LastRightButtonPressTime,
                             LastLeftButtonState, LastRightButtonState,
                             LeftButtonQuickPressCount, TRISA, PORTA, LEDState>> ]_vars
C33_BothSidesLit ==
  /\ pc = "RunLeftFlash" /\ PatternDelay[PATTERN_RIGHT_FLASH] = SLOW_DELAY
  /\ PatternState[PATTERN_RIGHT_FLASH] = 2 /\ PatternState[PATTERN_LEFT_FLASH] = 3
  /\ And8(LEDOns, 15) = LED_R_RED /\ And8(LEDOns, 240) = LED_L_GREEN

============================================================================
